---- MODULE Spec2Model ----
(***************************************************************************)
(* A model of the command analyzer of the safety-net hook                  *)
(* (scripts/safety_net_impl).  Text is modelled at character level: a      *)
(* string is a sequence of one-character strings, so a command, a segment, *)
(* a token and a reason are all sequences of characters, and the splitter, *)
(* the lexer, the wrapper stripper and the analyzers work on them the way  *)
(* the Python code does.  Python's None is modelled per type: an absent    *)
(* text (cwd, code argument) and an absent reason by a record with a       *)
(* flag, see NoneT / SomeT and Allow / Deny.                               *)
(***************************************************************************)
EXTENDS Integers, Sequences, FiniteSets, TLC

(***************************************************************************)
(* Characters and the str methods the code uses.                           *)
(***************************************************************************)
UpperLetters == <<"A","B","C","D","E","F","G","H","I","J","K","L","M","N","O","P","Q","R","S","T","U","V","W","X","Y","Z">>
LowerLetters == <<"a","b","c","d","e","f","g","h","i","j","k","l","m","n","o","p","q","r","s","t","u","v","w","x","y","z">>
Digits == {"0", "1", "2", "3", "4", "5", "6", "7", "8", "9"}
UpperSet == {UpperLetters[i] : i \in 1..26}
LowerSet == {LowerLetters[i] : i \in 1..26}
\* str.strip() / \s whitespace
Whitespace == {" ", "\t", "\n", "\r"}

\* The loops over the characters of a text are evaluated in blocks of this
\* many iterations, which keeps the evaluation of a long text shallow
BlockSize == 16

ch_isalpha(c) == c \in UpperSet \/ c \in LowerSet
ch_isdigit(c) == c \in Digits
ch_isalnum(c) == ch_isalpha(c) \/ ch_isdigit(c)
\* regex \w
ch_isword(c) == ch_isalnum(c) \/ c = "_"
ch_lower(c) == IF c \in UpperSet
               THEN LowerLetters[CHOOSE i \in 1..26 : UpperLetters[i] = c]
               ELSE c

\* str.lower()
lower(t) == [i \in 1..Len(t) |-> ch_lower(t[i])]
\* t[a:] with a 0-based Python index
From(t, a) == SubSeq(t, a + 1, Len(t))
\* t[:n]
Take(t, n) == SubSeq(t, 1, IF Len(t) < n THEN Len(t) ELSE n)
\* t.startswith(p, i) with a 0-based index i
startswith_at(t, p, i) ==
    /\ i + Len(p) <= Len(t)
    /\ SubSeq(t, i + 1, i + Len(p)) = p
startswith(t, p) == startswith_at(t, p, 0)
\* p in t, for strings
contains(t, p) == \E i \in 0..(Len(t) - Len(p)) : startswith_at(t, p, i)
\* str.isalpha(), str.isdigit(): false on the empty string
isalpha(t) == Len(t) > 0 /\ \A i \in 1..Len(t) : ch_isalpha(t[i])
isdigit(t) == Len(t) > 0 /\ \A i \in 1..Len(t) : ch_isdigit(t[i])

RECURSIVE lstrip_set(_, _)
lstrip_set(t, cs) == IF Len(t) > 0 /\ t[1] \in cs THEN lstrip_set(Tail(t), cs) ELSE t
RECURSIVE rstrip_set(_, _)
rstrip_set(t, cs) == IF Len(t) > 0 /\ t[Len(t)] \in cs
                     THEN rstrip_set(SubSeq(t, 1, Len(t) - 1), cs) ELSE t
\* str.strip(), str.lstrip()
strip(t) == rstrip_set(lstrip_set(t, Whitespace), Whitespace)
lstrip(t) == lstrip_set(t, Whitespace)

\* 0-based index of the first / last occurrence of character c, or -1
find_ch(t, c) == IF \E i \in 1..Len(t) : t[i] = c
                 THEN (CHOOSE i \in 1..Len(t) : t[i] = c /\ \A j \in 1..(i - 1) : t[j] # c) - 1
                 ELSE -1
rfind_ch(t, c) == IF \E i \in 1..Len(t) : t[i] = c
                  THEN (CHOOSE i \in 1..Len(t) : t[i] = c /\ \A j \in (i + 1)..Len(t) : t[j] # c) - 1
                  ELSE -1
\* posixpath.basename
basename(t) == From(t, rfind_ch(t, "/") + 1)

\* str.replace(old, new) for a non-empty old
\* r = [i |-> characters of t consumed, out |-> the result so far]; one
\* step copies a character or replaces an occurrence; the scan runs in
\* blocks of BlockSize steps
ReplaceStep(t, old, new, r) ==
    IF r.i >= Len(t) THEN r
    ELSE IF startswith_at(t, old, r.i) THEN [i |-> r.i + Len(old), out |-> r.out \o new]
    ELSE [i |-> r.i + 1, out |-> Append(r.out, t[r.i + 1])]
RECURSIVE ReplaceBlock(_, _, _, _, _)
ReplaceBlock(t, old, new, r, n) ==
    IF n = 0 \/ r.i >= Len(t) THEN r
    ELSE ReplaceBlock(t, old, new, ReplaceStep(t, old, new, r), n - 1)
RECURSIVE ReplaceRun(_, _, _, _)
ReplaceRun(t, old, new, r) ==
    IF r.i >= Len(t) THEN r
    ELSE ReplaceRun(t, old, new, ReplaceBlock(t, old, new, r, BlockSize))
replace(t, old, new) == ReplaceRun(t, old, new, [i |-> 0, out |-> <<>>]).out

\* list.index(x): 0-based index of the first element equal to x, or -1
index_of(xs, x) == IF \E i \in 1..Len(xs) : xs[i] = x
                   THEN (CHOOSE i \in 1..Len(xs) : xs[i] = x /\ \A j \in 1..(i - 1) : xs[j] # x) - 1
                   ELSE -1
\* x in xs, for lists
member(xs, x) == \E i \in 1..Len(xs) : xs[i] = x

\* An optional text: Python's `str | None`
NoneT == [some |-> FALSE, v |-> <<>>]
SomeT(t) == [some |-> TRUE, v |-> t]

(***************************************************************************)
(* shell.py: the shell splitter.                                           *)
(***************************************************************************)
SplitInit == [i |-> 0, buf |-> <<>>, parts |-> <<>>,
              in_single |-> FALSE, in_double |-> FALSE, escape |-> FALSE]

\* part = "".join(buf).strip(); if part: parts.append(part); buf = []
SplitFlush(s, n) ==
    LET part == strip(s.buf) IN
    [s EXCEPT !.parts = IF part # <<>> THEN Append(s.parts, part) ELSE s.parts,
              !.buf = <<>>,
              !.i = s.i + n]

SplitKeep(s, ch) == [s EXCEPT !.buf = Append(s.buf, ch), !.i = s.i + 1]

\* a faulty variant of SplitStep, which C29 rules out: a & always ends the
\* segment, redirection or not
SplitStep_NoRedirection(command, s) ==
    LET ch == command[s.i + 1] IN
    IF s.escape THEN [SplitKeep(s, ch) EXCEPT !.escape = FALSE]
    ELSE IF ch = "\\" /\ ~s.in_single THEN [SplitKeep(s, ch) EXCEPT !.escape = TRUE]
    ELSE IF ch = "'" /\ ~s.in_double THEN [SplitKeep(s, ch) EXCEPT !.in_single = ~s.in_single]
    ELSE IF ch = "\"" /\ ~s.in_single THEN [SplitKeep(s, ch) EXCEPT !.in_double = ~s.in_double]
    ELSE IF ~s.in_single /\ ~s.in_double THEN
        IF startswith_at(command, <<"&","&">>, s.i) \/ startswith_at(command, <<"|","|">>, s.i)
            THEN SplitFlush(s, 2)
        ELSE IF startswith_at(command, <<"|","&">>, s.i) THEN SplitFlush(s, 2)
        ELSE IF ch \in {"|", "&", ";", "\n"} THEN SplitFlush(s, 1)
        ELSE SplitKeep(s, ch)
    ELSE SplitKeep(s, ch)

\* One iteration of the while loop of _split_shell_commands
SplitStep(command, s) ==
    LET ch == command[s.i + 1]
        prev == IF s.i > 0 THEN <<command[s.i]>> ELSE <<>>
        nxt == IF s.i + 1 < Len(command) THEN <<command[s.i + 2]>> ELSE <<>>
    IN
    IF s.escape THEN [SplitKeep(s, ch) EXCEPT !.escape = FALSE]
    ELSE IF ch = "\\" /\ ~s.in_single THEN [SplitKeep(s, ch) EXCEPT !.escape = TRUE]
    ELSE IF ch = "'" /\ ~s.in_double THEN [SplitKeep(s, ch) EXCEPT !.in_single = ~s.in_single]
    ELSE IF ch = "\"" /\ ~s.in_single THEN [SplitKeep(s, ch) EXCEPT !.in_double = ~s.in_double]
    ELSE IF ~s.in_single /\ ~s.in_double THEN
        IF startswith_at(command, <<"&","&">>, s.i) \/ startswith_at(command, <<"|","|">>, s.i)
            THEN SplitFlush(s, 2)
        ELSE IF startswith_at(command, <<"|","&">>, s.i) THEN SplitFlush(s, 2)
        ELSE IF ch = "|" THEN SplitFlush(s, 1)
        ELSE IF ch = "&" THEN
            IF prev \in {<<">">>, <<"<">>} \/ nxt = <<">">> THEN SplitKeep(s, ch)
            ELSE SplitFlush(s, 1)
        ELSE IF ch \in {";", "\n"} THEN SplitFlush(s, 1)
        ELSE SplitKeep(s, ch)
    ELSE SplitKeep(s, ch)

\* `while i < len(command)`: up to n iterations
RECURSIVE SplitLoop(_, _, _)
SplitLoop(command, s, n) ==
    IF n = 0 \/ s.i >= Len(command) THEN s
    ELSE SplitLoop(command, SplitStep(command, s), n - 1)

\* the whole loop, a block of iterations to a level of the recursion
RECURSIVE SplitRun(_, _)
SplitRun(command, s) ==
    IF s.i < Len(command) THEN SplitRun(command, SplitLoop(command, s, BlockSize)) ELSE s

\* a faulty variant of split_shell_commands, which C3 rules out: the command
\* is one segment
split_shell_commands_NoSplit(command) ==
    IF strip(command) = <<>> THEN <<>> ELSE <<strip(command)>>

split_shell_commands(command) == SplitFlush(SplitRun(command, SplitInit), 0).parts

(***************************************************************************)
(* shlex.split(segment, posix=True) of the Python standard library, as     *)
(* _shlex_split calls it: whitespace_split, no comment characters.  The    *)
(* lexer state is " " (between tokens), "a" (in a word), a quote           *)
(* character, or the escape character.                                     *)
(***************************************************************************)
LexInit == [state |-> " ", escapedstate |-> " ", token |-> <<>>, quoted |-> FALSE,
            out |-> <<>>, pos |-> 1]

\* read_token returns: the token is emitted unless it is empty and unquoted
LexEmit(l) ==
    [l EXCEPT !.out = IF l.token # <<>> \/ l.quoted THEN Append(l.out, l.token) ELSE l.out,
              !.token = <<>>, !.quoted = FALSE, !.escapedstate = " ", !.state = " "]

LexStep(l, c) ==
    IF l.state = " " THEN
        IF c \in Whitespace THEN l
        ELSE IF c = "\\" THEN [l EXCEPT !.escapedstate = "a", !.state = c]
        ELSE IF c \in {"'", "\""} THEN [l EXCEPT !.state = c, !.quoted = TRUE]
        ELSE [l EXCEPT !.token = <<c>>, !.state = "a"]
    ELSE IF l.state \in {"'", "\""} THEN
        IF c = l.state THEN [l EXCEPT !.state = "a"]
        ELSE IF c = "\\" /\ l.state = "\"" THEN [l EXCEPT !.escapedstate = l.state, !.state = c]
        ELSE [l EXCEPT !.token = Append(l.token, c)]
    ELSE IF l.state = "\\" THEN
        LET kept == IF l.escapedstate \in {"'", "\""} /\ c # l.state /\ c # l.escapedstate
                    THEN Append(l.token, l.state) ELSE l.token
        IN [l EXCEPT !.token = Append(kept, c), !.state = l.escapedstate]
    ELSE \* l.state = "a"
        IF c \in Whitespace THEN LexEmit(l)
        ELSE IF c \in {"'", "\""} THEN [l EXCEPT !.state = c, !.quoted = TRUE]
        ELSE IF c = "\\" THEN [l EXCEPT !.escapedstate = "a", !.state = c]
        ELSE [l EXCEPT !.token = Append(l.token, c)]

\* the lexer reads up to n characters of the input
RECURSIVE LexLoop(_, _, _)
LexLoop(segment, l, n) ==
    IF n = 0 \/ l.pos > Len(segment) THEN l
    ELSE LexLoop(segment, [LexStep(l, segment[l.pos]) EXCEPT !.pos = l.pos + 1], n - 1)

\* the whole input, a block of characters to a level of the recursion
RECURSIVE LexRun(_, _)
LexRun(segment, l) ==
    IF l.pos <= Len(segment) THEN LexRun(segment, LexLoop(segment, l, BlockSize)) ELSE l

\* _shlex_split: ok = FALSE stands for None (shlex raised ValueError: no
\* closing quotation, or no escaped character)
shlex_split(segment) ==
    LET l == LexRun(segment, LexInit) IN
    IF l.state \in {"'", "\"", "\\"} THEN [ok |-> FALSE, toks |-> <<>>]
    ELSE [ok |-> TRUE, toks |-> LexEmit(l).out]


(***************************************************************************)
(* shell.py: wrapper stripping and short options.                          *)
(***************************************************************************)
\* The loop body of _strip_env_assignments: tok is a KEY=VALUE assignment
IsEnvAssignment(tok) ==
    /\ member(tok, "=")
    /\ LET key == SubSeq(tok, 1, find_ch(tok, "=")) IN
       /\ key # <<>>
       /\ ch_isalpha(key[1]) \/ key[1] = "_"
       /\ \A k \in 2..Len(key) : ch_isalnum(key[k]) \/ key[k] = "_"

RECURSIVE strip_env_assignments(_)
strip_env_assignments(tokens) ==
    IF tokens # <<>> /\ IsEnvAssignment(tokens[1])
    THEN strip_env_assignments(Tail(tokens)) ELSE tokens

\* The option scans of _strip_wrappers; i is the 0-based index, the result is
\* the index of the first token that is kept
RECURSIVE SudoScan(_, _)
SudoScan(tokens, i) ==
    IF i < Len(tokens) /\ startswith(tokens[i + 1], <<"-">>) /\ tokens[i + 1] # <<"-","-">>
    THEN SudoScan(tokens, i + 1)
    ELSE IF i < Len(tokens) /\ tokens[i + 1] = <<"-","-">> THEN i + 1 ELSE i

RECURSIVE EnvScan(_, _)
EnvScan(tokens, i) ==
    IF i >= Len(tokens) THEN i
    ELSE LET tok == tokens[i + 1] IN
         IF tok = <<"-","-">> THEN i + 1
         ELSE IF tok \in {<<"-","u">>, <<"-","-","u","n","s","e","t">>, <<"-","C">>, <<"-","P">>, <<"-","S">>} THEN EnvScan(tokens, i + 2)
         ELSE IF startswith(tok, <<"-","-","u","n","s","e","t","=">>) THEN EnvScan(tokens, i + 1)
         ELSE IF startswith(tok, <<"-","u">>) /\ Len(tok) > 2 THEN EnvScan(tokens, i + 1)
         ELSE IF startswith(tok, <<"-","C">>) /\ Len(tok) > 2 THEN EnvScan(tokens, i + 1)
         ELSE IF startswith(tok, <<"-","P">>) /\ Len(tok) > 2 THEN EnvScan(tokens, i + 1)
         ELSE IF startswith(tok, <<"-","S">>) /\ Len(tok) > 2 THEN EnvScan(tokens, i + 1)
         ELSE IF startswith(tok, <<"-">>) /\ tok # <<"-">> THEN EnvScan(tokens, i + 1)
         ELSE i

RECURSIVE CommandScan(_, _)
CommandScan(tokens, i) ==
    IF i >= Len(tokens) THEN i
    ELSE LET tok == tokens[i + 1] IN
         IF tok = <<"-","-">> THEN i + 1
         ELSE IF tok \in {<<"-","p">>, <<"-","v">>, <<"-","V">>} THEN CommandScan(tokens, i + 1)
         ELSE IF /\ startswith(tok, <<"-">>) /\ tok # <<"-">> /\ ~startswith(tok, <<"-","-">>)
                 /\ \A k \in 2..Len(tok) : tok[k] \in {"p", "v", "V"}
              THEN CommandScan(tokens, i + 1)
         ELSE i

\* The bound of the stripping loop (while ... and depth < 20)
MaxStripIterations == 20

\* The while loop of _strip_wrappers; previous is the token list of the
\* iteration before (NoneT before the first), depth the iteration count
RECURSIVE StripLoop(_, _, _)
\* One iteration: t1 is the token list after _strip_env_assignments
StripIteration(t1, tokens, depth) ==
    IF t1 = <<>> THEN t1
    ELSE LET head == lower(t1[1]) IN
         IF head = <<"s","u","d","o">>
         THEN StripLoop(From(t1, SudoScan(t1, 1)), SomeT(tokens), depth + 1)
         ELSE IF head = <<"e","n","v">>
         THEN StripLoop(From(t1, EnvScan(t1, 1)), SomeT(tokens), depth + 1)
         ELSE IF head = <<"c","o","m","m","a","n","d">>
         THEN StripLoop(From(t1, CommandScan(t1, 1)), SomeT(tokens), depth + 1)
         ELSE strip_env_assignments(t1)

StripLoop(tokens, previous, depth) ==
    IF tokens = <<>> \/ (previous.some /\ tokens = previous.v) \/ depth >= MaxStripIterations
    THEN strip_env_assignments(tokens)
    ELSE StripIteration(strip_env_assignments(tokens), tokens, depth)

\* a faulty variant of strip_wrappers, which C7 rules out: nothing is stripped
strip_wrappers_None(tokens) == tokens

strip_wrappers(tokens) == StripLoop(tokens, NoneT, 0)

\* The letters one token contributes to _short_opts: up to the first
\* character that is not a letter
RECURSIVE LeadingLetters(_)
LeadingLetters(t) ==
    IF t # <<>> /\ ch_isalpha(t[1]) THEN {t[1]} \cup LeadingLetters(Tail(t)) ELSE {}

RECURSIVE short_opts(_)
short_opts(tokens) ==
    IF tokens = <<>> \/ tokens[1] = <<"-","-">> THEN {}
    ELSE LET tok == tokens[1] IN
         (IF startswith(tok, <<"-","-">>) \/ ~startswith(tok, <<"-">>) \/ tok = <<"-">>
          THEN {} ELSE LeadingLetters(Tail(tok)))
         \cup short_opts(Tail(tokens))

(***************************************************************************)
(* hook.py: token helpers.                                                 *)
(***************************************************************************)
RECURSIVE StripDollarParen(_)
StripDollarParen(tok) ==
    IF startswith(tok, <<"$","(">>) THEN StripDollarParen(From(tok, 2)) ELSE tok

\* The code also strips the backquote on both sides; no text of the model
\* contains one (a TLA+ string cannot hold it), so it is left out of the sets
strip_token_wrappers(token) ==
    rstrip_set(lstrip_set(StripDollarParen(strip(token)), {"\\", "(", "{", "["}),
               {")", "}", "]"})

normalize_cmd_token(token) ==
    basename(lower(rstrip_set(strip_token_wrappers(token), {";"})))

\* tok.startswith("-") and len(tok) > 1 and tok[1:].isalpha() and the letters
\* include "c" and are among c, l, i, s
IsDashCCluster(tok) ==
    /\ startswith(tok, <<"-">>) /\ Len(tok) > 1 /\ isalpha(Tail(tok))
    /\ LET letters == {tok[k] : k \in 2..Len(tok)} IN
       "c" \in letters /\ letters \subseteq {"c", "l", "i", "s"}

\* for i in range(1, len(tokens)) of _extract_dash_c_arg
RECURSIVE DashCArgFrom(_, _)
DashCArgFrom(tokens, i) ==
    IF i >= Len(tokens) THEN NoneT
    ELSE LET tok == tokens[i + 1] IN
         IF tok = <<"-","-">> THEN NoneT
         ELSE IF tok = <<"-","c">> \/ IsDashCCluster(tok)
              THEN IF i + 1 < Len(tokens) THEN SomeT(tokens[i + 2]) ELSE NoneT
         ELSE DashCArgFrom(tokens, i + 1)

extract_dash_c_arg(tokens) == DashCArgFrom(tokens, 1)

RECURSIVE HasDashCFrom(_, _)
HasDashCFrom(tokens, i) ==
    IF i >= Len(tokens) THEN FALSE
    ELSE LET tok == tokens[i + 1] IN
         IF tok = <<"-","-">> THEN FALSE
         ELSE IF tok = <<"-","c">> \/ IsDashCCluster(tok) THEN TRUE
         ELSE HasDashCFrom(tokens, i + 1)

has_shell_dash_c(tokens) == HasDashCFrom(tokens, 1)

RECURSIVE PythonishArgFrom(_, _)
PythonishArgFrom(tokens, i) ==
    IF i >= Len(tokens) THEN NoneT
    ELSE LET tok == tokens[i + 1] IN
         IF tok = <<"-","-">> THEN NoneT
         ELSE IF tok \in {<<"-","c">>, <<"-","e">>}
              THEN IF i + 1 < Len(tokens) THEN SomeT(tokens[i + 2]) ELSE NoneT
         ELSE PythonishArgFrom(tokens, i + 1)

extract_pythonish_code_arg(tokens) == PythonishArgFrom(tokens, 1)

\* opts = the tokens before the first "--"
RECURSIVE UpToDoubleDash(_)
UpToDoubleDash(tokens) ==
    IF tokens = <<>> \/ tokens[1] = <<"-","-">> THEN <<>>
    ELSE <<tokens[1]>> \o UpToDoubleDash(Tail(tokens))

\* recursive and force of an option list, as in _rm_has_recursive_force and
\* in the -exec branch of _find_dangerous_action
OptsRecursiveForce(opts) ==
    LET short == short_opts(opts)
        recursive == (\E k \in 1..Len(opts) : lower(opts[k]) = <<"-","-","r","e","c","u","r","s","i","v","e">>)
                     \/ "r" \in short \/ "R" \in short
        force == (\E k \in 1..Len(opts) : lower(opts[k]) = <<"-","-","f","o","r","c","e">>) \/ "f" \in short
    IN recursive /\ force

rm_has_recursive_force(tokens) ==
    tokens # <<>> /\ OptsRecursiveForce(UpToDoubleDash(Tail(tokens)))

(***************************************************************************)
(* hook.py: xargs and parallel.                                            *)
(***************************************************************************)
XargsConsumesValue ==
    {<<"-","a">>, <<"-","I">>, <<"-","J">>, <<"-","L">>, <<"-","l">>, <<"-","n">>, <<"-","R">>, <<"-","S">>, <<"-","s">>, <<"-","P">>, <<"-","d">>, <<"-","E">>,
     <<"-","-","a","r","g","-","f","i","l","e">>, <<"-","-","d","e","l","i","m","i","t","e","r">>, <<"-","-","e","o","f">>, <<"-","-","m","a","x","-","a","r","g","s">>, <<"-","-","m","a","x","-","l","i","n","e","s">>,
     <<"-","-","m","a","x","-","p","r","o","c","s">>, <<"-","-","m","a","x","-","c","h","a","r","s">>, <<"-","-","p","r","o","c","e","s","s","-","s","l","o","t","-","v","a","r">>}

\* The option scan of _extract_xargs_child_command.  Every branch of the code
\* that is not `tok in consumes_value` (long options with or without `=`,
\* `-i`, the attached short forms, unknown short options) advances by one.
RECURSIVE XargsScan(_, _)
XargsScan(tokens, i) ==
    IF i >= Len(tokens) THEN i
    ELSE LET tok == tokens[i + 1] IN
         IF tok = <<"-","-">> THEN i + 1
         ELSE IF ~startswith(tok, <<"-">>) \/ tok = <<"-">> THEN i
         ELSE IF tok \in XargsConsumesValue THEN XargsScan(tokens, i + 2)
         ELSE XargsScan(tokens, i + 1)

\* NoneL stands for None, SomeL(xs) for a token list
NoneL == [some |-> FALSE, v |-> <<>>]
SomeL(xs) == [some |-> TRUE, v |-> xs]

extract_xargs_child_command(tokens) ==
    IF tokens = <<>> \/ normalize_cmd_token(tokens[1]) # <<"x","a","r","g","s">> THEN NoneL
    ELSE LET i == XargsScan(tokens, 1) IN
         IF i >= Len(tokens) THEN NoneL ELSE SomeL(From(tokens, i))

RECURSIVE XargsReplScan(_, _)
XargsReplScan(tokens, i) ==
    IF i >= Len(tokens) THEN {}
    ELSE LET tok == tokens[i + 1] IN
         IF tok = <<"-","-">> THEN {}
         ELSE IF ~startswith(tok, <<"-">>) \/ tok = <<"-">> THEN {}
         ELSE IF tok \in {<<"-","I">>, <<"-","J">>}
              THEN IF i + 1 < Len(tokens)
                   THEN {tokens[i + 2]} \cup XargsReplScan(tokens, i + 2) ELSE {}
         ELSE IF (startswith(tok, <<"-","I">>) \/ startswith(tok, <<"-","J">>)) /\ Len(tok) > 2
              THEN {From(tok, 2)} \cup XargsReplScan(tokens, i + 1)
         ELSE IF tok = <<"-","i">> THEN {<<"{","}">>} \cup XargsReplScan(tokens, i + 1)
         ELSE IF startswith(tok, <<"-","i">>) /\ Len(tok) > 2
              THEN {From(tok, 2)} \cup XargsReplScan(tokens, i + 1)
         ELSE IF tok \in {<<"-","-","r","e","p","l","a","c","e">>, <<"-","-","r","e","p","l","a","c","e","=">>, <<"-","-","r","e","p","l","a","c","e","-","s","t","r">>}
              THEN {<<"{","}">>} \cup XargsReplScan(tokens, i + 1)
         ELSE IF startswith(tok, <<"-","-","r","e","p","l","a","c","e","=">>)
              THEN {From(tok, Len(<<"-","-","r","e","p","l","a","c","e","=">>))} \cup XargsReplScan(tokens, i + 1)
         ELSE XargsReplScan(tokens, i + 1)

xargs_replacement_tokens(tokens) ==
    IF tokens = <<>> \/ normalize_cmd_token(tokens[1]) # <<"x","a","r","g","s">> THEN {}
    ELSE XargsReplScan(tokens, 1)

ParallelConsumesValue ==
    {<<"-","j">>, <<"-","-","j","o","b","s">>, <<"-","S">>, <<"-","-","s","s","h","l","o","g","i","n">>, <<"-","-","s","s","h","l","o","g","i","n","f","i","l","e">>, <<"-","-","r","e","s","u","l","t","s">>,
     <<"-","-","j","o","b","l","o","g">>, <<"-","-","w","o","r","k","d","i","r">>, <<"-","-","t","m","p","d","i","r">>, <<"-","-","t","e","m","p","d","i","r">>, <<"-","-","t","a","g","s","t","r","i","n","g">>}

\* The option scan of _extract_parallel_template_and_args, up to marker; as in
\* XargsScan every branch but `tok in consumes_value` advances by one
RECURSIVE ParallelScan(_, _, _)
ParallelScan(tokens, i, marker) ==
    IF i >= marker THEN i
    ELSE LET tok == tokens[i + 1] IN
         IF tok = <<"-","-">> THEN i + 1
         ELSE IF ~startswith(tok, <<"-">>) \/ tok = <<"-">> THEN i
         ELSE IF tok \in ParallelConsumesValue THEN ParallelScan(tokens, i + 2, marker)
         ELSE ParallelScan(tokens, i + 1, marker)

\* some = FALSE stands for None
extract_parallel_template_and_args(tokens) ==
    IF tokens = <<>> \/ normalize_cmd_token(tokens[1]) # <<"p","a","r","a","l","l","e","l">>
    THEN [some |-> FALSE, template |-> <<>>, args |-> <<>>, args_dynamic |-> FALSE]
    ELSE LET args_dynamic == ~member(tokens, <<":",":",":">>)
             marker == IF args_dynamic THEN Len(tokens) ELSE index_of(tokens, <<":",":",":">>)
             i == ParallelScan(tokens, 1, marker)
         IN [some |-> TRUE,
             template |-> SubSeq(tokens, i + 1, marker),
             args |-> IF args_dynamic THEN <<>> ELSE From(tokens, marker + 1),
             args_dynamic |-> args_dynamic]

(***************************************************************************)
(* hook.py: find.                                                          *)
(***************************************************************************)
REASON_FIND_EXEC_RM ==
    <<"f","i","n","d"," ","-","e","x","e","c"," ","r","m"," ","-","r","f"," ","r","u","n","s"," ","d","e","s","t","r","u","c","t","i","v","e"," ","d","e","l","e","t","i","o","n"," ","o","n"," ","m","a","t","c","h","e","d"," ","f","i","l","e","s","."," ","U","s","e"," ","f","i","n","d"," ","-","p","r","i","n","t"," ","f","i","r","s","t"," ","t","o"," ","v","e","r","i","f","y"," ","t","a","r","g","e","t","s",".">>
REASON_FIND_DELETE_ACTION ==
    <<"f","i","n","d"," ","-","d","e","l","e","t","e"," ","p","e","r","m","a","n","e","n","t","l","y"," ","r","e","m","o","v","e","s"," ","f","i","l","e","s"," ","m","a","t","c","h","i","n","g"," ","t","h","e"," ","c","r","i","t","e","r","i","a","."," ","U","s","e"," ","f","i","n","d"," ","-","p","r","i","n","t"," ","f","i","r","s","t"," ","t","o"," ","v","e","r","i","f","y"," ","t","a","r","g","e","t","s",".">>

FindConsumesOne ==
    {<<"-","n","a","m","e">>, <<"-","i","n","a","m","e">>, <<"-","p","a","t","h">>, <<"-","i","p","a","t","h">>, <<"-","w","h","o","l","e","n","a","m","e">>, <<"-","i","w","h","o","l","e","n","a","m","e">>, <<"-","r","e","g","e","x">>,
     <<"-","i","r","e","g","e","x">>, <<"-","l","n","a","m","e">>, <<"-","i","l","n","a","m","e">>, <<"-","s","a","m","e","f","i","l","e">>, <<"-","n","e","w","e","r">>, <<"-","n","e","w","e","r","x","y">>, <<"-","p","e","r","m">>,
     <<"-","u","s","e","r">>, <<"-","g","r","o","u","p">>, <<"-","p","r","i","n","t","f">>, <<"-","f","p","r","i","n","t","f">>, <<"-","f","p","r","i","n","t">>, <<"-","f","p","r","i","n","t","0">>, <<"-","f","l","s">>}
FindExecLike == {<<"-","e","x","e","c">>, <<"-","e","x","e","c","d","i","r">>, <<"-","o","k">>, <<"-","o","k","d","i","r">>}

\* The inner while loop: the index of the terminator ; or +, or len(args)
RECURSIVE FindExecEnd(_, _)
FindExecEnd(args, i) ==
    IF i < Len(args) /\ strip_token_wrappers(args[i + 1]) \notin {<<";">>, <<"+">>}
    THEN FindExecEnd(args, i + 1) ELSE i

\* The body of `if exec_tokens:` for the wrapper-stripped, non-empty
\* exec_tokens: TRUE when the command is rm (also busybox rm) with -r and -f
FindExecIsRmRf(exec_tokens) ==
    LET cmd == normalize_cmd_token(exec_tokens[1])
        busybox_rm == /\ cmd = <<"b","u","s","y","b","o","x">> /\ Len(exec_tokens) >= 2
                      /\ normalize_cmd_token(exec_tokens[2]) = <<"r","m">>
    IN IF busybox_rm THEN OptsRecursiveForce(UpToDoubleDash(From(exec_tokens, 2)))
       ELSE cmd = <<"r","m">> /\ OptsRecursiveForce(UpToDoubleDash(Tail(exec_tokens)))

RECURSIVE FindScan(_, _)
\* An -exec like action: e is the index of its terminator, exec_tokens the
\* wrapper-stripped command between
FindExec(args, e, exec_tokens) ==
    IF exec_tokens # <<>> /\ FindExecIsRmRf(exec_tokens)
    THEN SomeT(REASON_FIND_EXEC_RM)
    ELSE FindScan(args, e + 1)

FindAction(args, i, e) == FindExec(args, e, strip_wrappers(SubSeq(args, i + 2, e)))

\* a faulty variant of FindScan, which C17 rules out: the argument of a
\* one-argument predicate is scanned like any other token
RECURSIVE FindScan_NoPredicateArgs(_, _)
FindScan_NoPredicateArgs(args, i) ==
    IF i >= Len(args) THEN NoneT
    ELSE LET tok == lower(strip_token_wrappers(args[i + 1])) IN
         IF tok \in FindExecLike THEN FindAction(args, i, FindExecEnd(args, i + 1))
         ELSE IF tok = <<"-","d","e","l","e","t","e">> THEN SomeT(REASON_FIND_DELETE_ACTION)
         ELSE FindScan_NoPredicateArgs(args, i + 1)

FindScan(args, i) ==
    IF i >= Len(args) THEN NoneT
    ELSE LET tok == lower(strip_token_wrappers(args[i + 1])) IN
         IF tok \in FindExecLike THEN FindAction(args, i, FindExecEnd(args, i + 1))
         ELSE IF tok \in FindConsumesOne THEN FindScan(args, i + 2)
         ELSE IF tok = <<"-","d","e","l","e","t","e">> THEN SomeT(REASON_FIND_DELETE_ACTION)
         ELSE FindScan(args, i + 1)

find_dangerous_action(args) == FindScan(args, 0)

(***************************************************************************)
(* rules_git.py                                                            *)
(***************************************************************************)
REASON_GIT_CHECKOUT_DOUBLE_DASH ==
    <<"g","i","t"," ","c","h","e","c","k","o","u","t"," ","-","-"," ","d","i","s","c","a","r","d","s"," ","u","n","c","o","m","m","i","t","t","e","d"," ","c","h","a","n","g","e","s"," ","p","e","r","m","a","n","e","n","t","l","y","."," ","U","s","e"," ","'","g","i","t"," ","s","t","a","s","h","'"," ","f","i","r","s","t",".">>
REASON_GIT_CHECKOUT_REF_DOUBLE_DASH ==
    <<"g","i","t"," ","c","h","e","c","k","o","u","t"," ","<","r","e","f",">"," ","-","-"," ","<","p","a","t","h",">"," ","o","v","e","r","w","r","i","t","e","s"," ","w","o","r","k","i","n","g"," ","t","r","e","e","."," ","U","s","e"," ","'","g","i","t"," ","s","t","a","s","h","'"," ","f","i","r","s","t",".">>
REASON_GIT_CHECKOUT_REF_PATHSPEC ==
    <<"g","i","t"," ","c","h","e","c","k","o","u","t"," ","<","r","e","f",">"," ","<","p","a","t","h",">"," ","o","v","e","r","w","r","i","t","e","s"," ","w","o","r","k","i","n","g"," ","t","r","e","e","."," ","U","s","e"," ","'","g","i","t"," ","s","t","a","s","h","'"," ","f","i","r","s","t",".">>
REASON_GIT_CHECKOUT_PATHSPEC_FROM_FILE ==
    <<"g","i","t"," ","c","h","e","c","k","o","u","t"," ","-","-","p","a","t","h","s","p","e","c","-","f","r","o","m","-","f","i","l","e"," ","o","v","e","r","w","r","i","t","e","s"," ","w","o","r","k","i","n","g"," ","t","r","e","e","."," ","U","s","e"," ","'","g","i","t"," ","s","t","a","s","h","'"," ","f","i","r","s","t",".">>
REASON_GIT_RESTORE ==
    <<"g","i","t"," ","r","e","s","t","o","r","e"," ","d","i","s","c","a","r","d","s"," ","u","n","c","o","m","m","i","t","t","e","d"," ","c","h","a","n","g","e","s","."," ","U","s","e"," ","'","g","i","t"," ","s","t","a","s","h","'"," ","o","r"," ","'","g","i","t"," ","d","i","f","f","'"," ","f","i","r","s","t",".">>
REASON_GIT_RESTORE_WORKTREE ==
    <<"g","i","t"," ","r","e","s","t","o","r","e"," ","-","-","w","o","r","k","t","r","e","e"," ","d","i","s","c","a","r","d","s"," ","u","n","c","o","m","m","i","t","t","e","d"," ","c","h","a","n","g","e","s"," ","p","e","r","m","a","n","e","n","t","l","y",".">>
REASON_GIT_RESET_HARD ==
    <<"g","i","t"," ","r","e","s","e","t"," ","-","-","h","a","r","d"," ","d","e","s","t","r","o","y","s"," ","u","n","c","o","m","m","i","t","t","e","d"," ","c","h","a","n","g","e","s","."," ","U","s","e"," ","'","g","i","t"," ","s","t","a","s","h","'"," ","f","i","r","s","t",".">>
REASON_GIT_RESET_MERGE == <<"g","i","t"," ","r","e","s","e","t"," ","-","-","m","e","r","g","e"," ","c","a","n"," ","l","o","s","e"," ","u","n","c","o","m","m","i","t","t","e","d"," ","c","h","a","n","g","e","s",".">>
REASON_GIT_CLEAN_FORCE ==
    <<"g","i","t"," ","c","l","e","a","n"," ","-","f"," ","r","e","m","o","v","e","s"," ","u","n","t","r","a","c","k","e","d"," ","f","i","l","e","s"," ","p","e","r","m","a","n","e","n","t","l","y","."," ","R","e","v","i","e","w"," ","w","i","t","h"," ","'","g","i","t"," ","c","l","e","a","n"," ","-","n","'"," ","f","i","r","s","t",".">>
REASON_GIT_PUSH_FORCE ==
    <<"F","o","r","c","e"," ","p","u","s","h"," ","c","a","n"," ","d","e","s","t","r","o","y"," ","r","e","m","o","t","e"," ","h","i","s","t","o","r","y","."," ","U","s","e"," ","-","-","f","o","r","c","e","-","w","i","t","h","-","l","e","a","s","e"," ","i","f"," ","n","e","c","e","s","s","a","r","y",".">>
REASON_GIT_WORKTREE_REMOVE_FORCE ==
    <<"g","i","t"," ","w","o","r","k","t","r","e","e"," ","r","e","m","o","v","e"," ","-","-","f","o","r","c","e"," ","c","a","n"," ","d","e","l","e","t","e"," ","w","o","r","k","t","r","e","e"," ","f","i","l","e","s","."," ","V","e","r","i","f","y"," ","t","h","e"," ","p","a","t","h"," ","f","i","r","s","t",".">>
REASON_GIT_BRANCH_DELETE_FORCE ==
    <<"g","i","t"," ","b","r","a","n","c","h"," ","-","D"," ","f","o","r","c","e","-","d","e","l","e","t","e","s"," ","w","i","t","h","o","u","t"," ","m","e","r","g","e"," ","c","h","e","c","k","."," ","U","s","e"," ","-","d"," ","f","o","r"," ","s","a","f","e","t","y",".">>
REASON_GIT_STASH_DROP ==
    <<"g","i","t"," ","s","t","a","s","h"," ","d","r","o","p"," ","p","e","r","m","a","n","e","n","t","l","y"," ","d","e","l","e","t","e","s"," ","s","t","a","s","h","e","d"," ","c","h","a","n","g","e","s","."," ","L","i","s","t"," ","s","t","a","s","h","e","s"," ","f","i","r","s","t"," ","w","i","t","h"," ","'","g","i","t"," ","s","t","a","s","h"," ","l","i","s","t","'",".">>
REASON_GIT_STASH_CLEAR == <<"g","i","t"," ","s","t","a","s","h"," ","c","l","e","a","r"," ","p","e","r","m","a","n","e","n","t","l","y"," ","d","e","l","e","t","e","s"," ","A","L","L"," ","s","t","a","s","h","e","d"," ","c","h","a","n","g","e","s",".">>

GitOptsWithValue ==
    {<<"-","c">>, <<"-","C">>, <<"-","-","e","x","e","c","-","p","a","t","h">>, <<"-","-","g","i","t","-","d","i","r">>, <<"-","-","n","a","m","e","s","p","a","c","e">>, <<"-","-","s","u","p","e","r","-","p","r","e","f","i","x">>,
     <<"-","-","w","o","r","k","-","t","r","e","e">>}

\* The global-option scan of _git_subcommand_and_rest.  Every branch of the
\* code that is not `tok in opts_with_value` advances by one.
RECURSIVE GitScan(_, _)
GitScan(tokens, i) ==
    IF i >= Len(tokens) THEN i
    ELSE LET tok == tokens[i + 1] IN
         IF tok = <<"-","-">> THEN i + 1
         ELSE IF ~startswith(tok, <<"-">>) \/ tok = <<"-">> THEN i
         ELSE IF tok \in GitOptsWithValue THEN GitScan(tokens, i + 2)
         ELSE GitScan(tokens, i + 1)

\* sub.some = FALSE stands for a None subcommand
git_subcommand_and_rest(tokens) ==
    IF tokens = <<>> \/ lower(tokens[1]) # <<"g","i","t">> THEN [sub |-> NoneT, rest |-> <<>>]
    ELSE LET i == GitScan(tokens, 1) IN
         IF i >= Len(tokens) THEN [sub |-> NoneT, rest |-> <<>>]
         ELSE [sub |-> SomeT(tokens[i + 1]), rest |-> From(tokens, i + 1)]

CheckoutOptsWithValue ==
    {<<"-","b">>, <<"-","B">>, <<"-","-","o","r","p","h","a","n">>, <<"-","-","c","o","n","f","l","i","c","t">>, <<"-","U">>, <<"-","-","u","n","i","f","i","e","d">>,
     <<"-","-","i","n","t","e","r","-","h","u","n","k","-","c","o","n","t","e","x","t">>, <<"-","-","p","a","t","h","s","p","e","c","-","f","r","o","m","-","f","i","l","e">>}
CheckoutOptsNoValue ==
    {<<"-","f">>, <<"-","-","f","o","r","c","e">>, <<"-","m">>, <<"-","-","m","e","r","g","e">>, <<"-","q">>, <<"-","-","q","u","i","e","t">>, <<"-","-","d","e","t","a","c","h">>,
     <<"-","-","i","g","n","o","r","e","-","s","k","i","p","-","w","o","r","k","t","r","e","e","-","b","i","t","s">>, <<"-","-","o","v","e","r","w","r","i","t","e","-","i","g","n","o","r","e">>, <<"-","-","n","o","-","o","v","e","r","l","a","y">>,
     <<"-","-","o","v","e","r","l","a","y">>, <<"-","-","p","r","o","g","r","e","s","s">>, <<"-","-","n","o","-","p","r","o","g","r","e","s","s">>, <<"-","-","g","u","e","s","s">>, <<"-","-","n","o","-","g","u","e","s","s">>,
     <<"-","-","p","a","t","h","s","p","e","c","-","f","i","l","e","-","n","u","l">>}

RECURSIVE CheckoutScan(_, _)
CheckoutScan(rest, i) ==
    IF i >= Len(rest) THEN <<>>
    ELSE LET tok == rest[i + 1]
             nxt_in(vals) == i + 1 < Len(rest) /\ rest[i + 2] \in vals
         IN
         IF tok = <<"-","-">> THEN <<>>
         ELSE IF tok = <<"-">> THEN <<tok>> \o CheckoutScan(rest, i + 1)
         ELSE IF startswith(tok, <<"-">>) THEN
             IF tok \in CheckoutOptsNoValue THEN CheckoutScan(rest, i + 1)
             ELSE IF startswith(tok, <<"-","-">>) /\ member(tok, "=") THEN CheckoutScan(rest, i + 1)
             ELSE IF /\ Len(tok) > 2
                     /\ startswith(tok, <<"-","U">>) \/ startswith(tok, <<"-","b">>) \/ startswith(tok, <<"-","B">>)
                  THEN CheckoutScan(rest, i + 1)
             ELSE IF tok \in CheckoutOptsWithValue THEN CheckoutScan(rest, i + 2)
             ELSE IF tok = <<"-","-","r","e","c","u","r","s","e","-","s","u","b","m","o","d","u","l","e","s">>
                  THEN CheckoutScan(rest, IF nxt_in({<<"c","h","e","c","k","o","u","t">>, <<"o","n","-","d","e","m","a","n","d">>}) THEN i + 2 ELSE i + 1)
             ELSE IF tok \in {<<"-","t">>, <<"-","-","t","r","a","c","k">>}
                  THEN CheckoutScan(rest, IF nxt_in({<<"d","i","r","e","c","t">>, <<"i","n","h","e","r","i","t">>}) THEN i + 2 ELSE i + 1)
             ELSE IF startswith(tok, <<"-","-">>)
                  THEN CheckoutScan(rest, IF i + 1 < Len(rest) /\ ~startswith(rest[i + 2], <<"-">>)
                                          THEN i + 2 ELSE i + 1)
             ELSE CheckoutScan(rest, i + 1)
         ELSE <<tok>> \o CheckoutScan(rest, i + 1)

\* a faulty variant of checkout_positional_args, which C16 rules out: the
\* values of the options are counted as positional arguments
checkout_positional_args_WithValues(rest) ==
    SelectSeq(UpToDoubleDash(rest), LAMBDA tok : tok = <<"-">> \/ ~startswith(tok, <<"-">>))

checkout_positional_args(rest) == CheckoutScan(rest, 0)

\* a faulty variant of PushRule, which C15 rules out: --force-with-lease
\* excuses a short -f
PushRule_LeaseExcusesShort(rest_lower, short) ==
    LET has_force_with_lease ==
            \E k \in 1..Len(rest_lower) : startswith(rest_lower[k], <<"-","-","f","o","r","c","e","-","w","i","t","h","-","l","e","a","s","e">>)
        has_force == member(rest_lower, <<"-","-","f","o","r","c","e">>) \/ "f" \in short
    IN IF has_force /\ ~has_force_with_lease THEN SomeT(REASON_GIT_PUSH_FORCE)
       ELSE IF member(rest_lower, <<"-","-","f","o","r","c","e">>) /\ has_force_with_lease
            THEN SomeT(REASON_GIT_PUSH_FORCE)
       ELSE NoneT

\* The push branch of _analyze_git
PushRule(rest_lower, short) ==
    LET has_force_with_lease ==
            \E k \in 1..Len(rest_lower) : startswith(rest_lower[k], <<"-","-","f","o","r","c","e","-","w","i","t","h","-","l","e","a","s","e">>)
        has_force == member(rest_lower, <<"-","-","f","o","r","c","e">>) \/ "f" \in short
    IN IF has_force /\ ~has_force_with_lease THEN SomeT(REASON_GIT_PUSH_FORCE)
       ELSE IF member(rest_lower, <<"-","-","f","o","r","c","e">>) /\ has_force_with_lease
            THEN SomeT(REASON_GIT_PUSH_FORCE)
       ELSE IF "f" \in short /\ has_force_with_lease THEN SomeT(REASON_GIT_PUSH_FORCE)
       ELSE NoneT

\* The rules of _analyze_git for the subcommand sub (lowercased) and the
\* tokens after it; rest_lower and short are computed from rest
GitRules(sub, rest, rest_lower, short) ==
    LET has(l) == member(rest_lower, l) IN
    IF sub = <<"c","h","e","c","k","o","u","t">> THEN
        IF member(rest, <<"-","-">>)
        THEN IF index_of(rest, <<"-","-">>) = 0 THEN SomeT(REASON_GIT_CHECKOUT_DOUBLE_DASH)
             ELSE SomeT(REASON_GIT_CHECKOUT_REF_DOUBLE_DASH)
        ELSE IF member(rest, <<"-","b">>) \/ "b" \in short THEN NoneT
        ELSE IF member(rest, <<"-","B">>) \/ "B" \in short THEN NoneT
        ELSE IF has(<<"-","-","o","r","p","h","a","n">>) THEN NoneT
        ELSE IF \E k \in 1..Len(rest_lower) :
                    \/ rest_lower[k] = <<"-","-","p","a","t","h","s","p","e","c","-","f","r","o","m","-","f","i","l","e">>
                    \/ startswith(rest_lower[k], <<"-","-","p","a","t","h","s","p","e","c","-","f","r","o","m","-","f","i","l","e","=">>)
             THEN SomeT(REASON_GIT_CHECKOUT_PATHSPEC_FROM_FILE)
        ELSE IF Len(checkout_positional_args(rest)) >= 2
             THEN SomeT(REASON_GIT_CHECKOUT_REF_PATHSPEC)
        ELSE NoneT
    ELSE IF sub = <<"r","e","s","t","o","r","e">> THEN
        IF has(<<"-","h">>) \/ has(<<"-","-","h","e","l","p">>) \/ has(<<"-","-","v","e","r","s","i","o","n">>) THEN NoneT
        ELSE IF has(<<"-","-","w","o","r","k","t","r","e","e">>) THEN SomeT(REASON_GIT_RESTORE_WORKTREE)
        ELSE IF has(<<"-","-","s","t","a","g","e","d">>) THEN NoneT
        ELSE SomeT(REASON_GIT_RESTORE)
    ELSE IF sub = <<"r","e","s","e","t">> THEN
        IF has(<<"-","-","h","a","r","d">>) THEN SomeT(REASON_GIT_RESET_HARD)
        ELSE IF has(<<"-","-","m","e","r","g","e">>) THEN SomeT(REASON_GIT_RESET_MERGE)
        ELSE NoneT
    ELSE IF sub = <<"c","l","e","a","n">> THEN
        IF has(<<"-","-","f","o","r","c","e">>) \/ "f" \in short THEN SomeT(REASON_GIT_CLEAN_FORCE) ELSE NoneT
    ELSE IF sub = <<"p","u","s","h">> THEN
        PushRule(rest_lower, short)
    ELSE IF sub = <<"w","o","r","k","t","r","e","e">> THEN
        IF rest_lower = <<>> THEN NoneT
        ELSE IF rest_lower[1] # <<"r","e","m","o","v","e">> THEN NoneT
        ELSE LET rest_for_opts == UpToDoubleDash(rest) IN
             IF \/ \E k \in 1..Len(rest_for_opts) : lower(rest_for_opts[k]) = <<"-","-","f","o","r","c","e">>
                \/ "f" \in short_opts(rest_for_opts)
             THEN SomeT(REASON_GIT_WORKTREE_REMOVE_FORCE) ELSE NoneT
    ELSE IF sub = <<"b","r","a","n","c","h">> THEN
        IF member(rest, <<"-","D">>) \/ "D" \in short THEN SomeT(REASON_GIT_BRANCH_DELETE_FORCE)
        ELSE NoneT
    ELSE IF sub = <<"s","t","a","s","h">> THEN
        IF rest_lower = <<>> THEN NoneT
        ELSE IF rest_lower[1] = <<"d","r","o","p">> THEN SomeT(REASON_GIT_STASH_DROP)
        ELSE IF rest_lower[1] = <<"c","l","e","a","r">> THEN SomeT(REASON_GIT_STASH_CLEAR)
        ELSE NoneT
    ELSE NoneT

LowerAll(tokens) == [k \in 1..Len(tokens) |-> lower(tokens[k])]

GitSubcommand(sr) ==
    IF ~sr.sub.some \/ sr.sub.v = <<>> THEN NoneT
    ELSE GitRules(lower(sr.sub.v), sr.rest, LowerAll(sr.rest), short_opts(sr.rest))

analyze_git(tokens) == GitSubcommand(git_subcommand_and_rest(tokens))

(***************************************************************************)
(* rules_custom.py, and the CustomRule and Config of config.py.  A rule is *)
(* a record [name, command, subcommand, block_args, reason]; subcommand is *)
(* an optional text.  A configuration is its list of rules.                *)
(***************************************************************************)
normalize_command(token) == basename(token)

RECURSIVE SubcommandFrom(_, _)
SubcommandFrom(tokens, i) ==
    IF i >= Len(tokens) THEN NoneT
    ELSE LET tok == tokens[i + 1] IN
         IF tok = <<"-","-">>
         THEN IF i + 1 < Len(tokens) THEN SomeT(tokens[i + 2]) ELSE NoneT
         ELSE IF startswith(tok, <<"-","-">>) THEN SubcommandFrom(tokens, i + 1)
         ELSE IF startswith(tok, <<"-">>) /\ Len(tok) >= 2 THEN SubcommandFrom(tokens, i + 1)
         ELSE SomeT(tok)

extract_subcommand(tokens) == SubcommandFrom(tokens, 1)

\* f"[{rule.name}] {rule.reason}"
RuleMessage(rule) == <<"[">> \o rule.name \o <<"]"," ">> \o rule.reason

\* a faulty variant of RuleBlocks, which C8 rules out: a short flag is not
\* looked up among the letters of the bundled short options
RuleBlocks_Exact(rule, tokens) ==
    \E k \in 1..Len(rule.block_args) : member(tokens, rule.block_args[k])

\* for blocked_arg in rule.block_args: the rule blocks the command when some
\* blocked argument is present
RuleBlocks(rule, tokens) ==
    LET short == short_opts(tokens) IN
    \E k \in 1..Len(rule.block_args) :
        LET blocked_arg == rule.block_args[k] IN
        \/ member(tokens, blocked_arg)
        \/ /\ Len(blocked_arg) = 2 /\ blocked_arg[1] = "-" /\ blocked_arg[2] # "-"
           /\ blocked_arg[2] \in short

\* for rule in rules, from the rule at 0-based index i on
RECURSIVE CustomRulesFrom(_, _, _)
CustomRulesFrom(tokens, rules, i) ==
    IF i >= Len(rules) THEN NoneT
    ELSE LET rule == rules[i + 1] IN
         IF rule.command # normalize_command(tokens[1]) THEN CustomRulesFrom(tokens, rules, i + 1)
         ELSE IF rule.subcommand.some /\ extract_subcommand(tokens) # rule.subcommand
              THEN CustomRulesFrom(tokens, rules, i + 1)
         ELSE IF RuleBlocks(rule, tokens) THEN SomeT(RuleMessage(rule))
         ELSE CustomRulesFrom(tokens, rules, i + 1)

check_custom_rules(tokens, rules) ==
    IF tokens = <<>> \/ rules = <<>> THEN NoneT ELSE CustomRulesFrom(tokens, rules, 0)

(***************************************************************************)
(* hook.py: the text-level heuristics.  The regular expressions are        *)
(* written out as the matches re.search looks for; positions are 1-based   *)
(* indices into the text.                                                  *)
(***************************************************************************)
REASON_RM_RF_TEXT == <<"r","m"," ","-","r","f"," ","i","s"," ","d","e","s","t","r","u","c","t","i","v","e","."," ","L","i","s","t"," ","f","i","l","e","s"," ","f","i","r","s","t",","," ","t","h","e","n"," ","d","e","l","e","t","e"," ","i","n","d","i","v","i","d","u","a","l","l","y",".">>
REASON_FIND_DELETE ==
    <<"f","i","n","d"," ","-","d","e","l","e","t","e"," ","p","e","r","m","a","n","e","n","t","l","y"," ","d","e","l","e","t","e","s"," ","m","a","t","c","h","e","d"," ","f","i","l","e","s","."," ","U","s","e"," ","-","p","r","i","n","t"," ","f","i","r","s","t",".">>

\* \b after the word character at position e: the next character is no
\* word character
BoundaryAfter(t, e) == e >= Len(t) \/ ~ch_isword(t[e + 1])
\* \b before the word character at position p
BoundaryBefore(t, p) == p <= 1 \/ ~ch_isword(t[p - 1])
\* [^\n;|&]* matches exactly the positions a..b
SepFree(t, a, b) == \A k \in a..b : t[k] \notin {"\n", ";", "|", "&"}
\* the literal w stands at positions p..p+Len(w)-1
LitAt(t, w, p) == p >= 1 /\ startswith_at(t, w, p - 1)
\* \s<opt>\b with the whitespace at position q
OptAt(t, opt, q) ==
    /\ q >= 1 /\ q <= Len(t) /\ t[q] \in Whitespace
    /\ LitAt(t, opt, q + 1)
    /\ BoundaryAfter(t, q + Len(opt))
\* \s<o1>\b[^\n;|&]*\s<o2>\b with the first whitespace at position q
OptPairAt(t, o1, o2, q) ==
    /\ OptAt(t, o1, q)
    /\ \E q2 \in (q + 1 + Len(o1))..Len(t) :
          SepFree(t, q + 1 + Len(o1), q2 - 1) /\ OptAt(t, o2, q2)

\* the end of the run of lower-case letters that starts at position a
\* (a - 1 when there is none)
RECURSIVE LettersEnd(_, _)
LettersEnd(t, a) == IF a <= Len(t) /\ t[a] \in LowerSet THEN LettersEnd(t, a + 1) ELSE a - 1

\* \s-(?:[a-z]*r[a-z]*f|[a-z]*f[a-z]*r)\b with the whitespace at position q
RfClusterAt(t, q) ==
    /\ q >= 1 /\ q + 1 <= Len(t) /\ t[q] \in Whitespace /\ t[q + 1] = "-"
    /\ LET e == LettersEnd(t, q + 2) IN
       /\ e >= q + 3
       /\ BoundaryAfter(t, e)
       /\ \/ t[e] = "f" /\ \E k \in (q + 2)..(e - 1) : t[k] = "r"
          \/ t[e] = "r" /\ \E k \in (q + 2)..(e - 1) : t[k] = "f"

\* (?<![\w/\\])(?:/[^\s<quotes>;|&]+/)?rm\b with the r of rm at position p
RmWordAt(t, p) ==
    LET not_behind(s) == s <= 1 \/ ~(ch_isword(t[s - 1]) \/ t[s - 1] \in {"/", "\\"}) IN
    /\ LitAt(t, <<"r","m">>, p)
    /\ BoundaryAfter(t, p + 1)
    /\ \/ not_behind(p)
       \/ \E s \in 1..(p - 3) :
             /\ t[s] = "/" /\ t[p - 1] = "/" /\ not_behind(s)
             /\ \A k \in (s + 1)..(p - 2) :
                    t[k] \notin Whitespace \cup {"'", "\"", ";", "|", "&"}

\* the rm -rf expression of _dangerous_in_text matches the lower-cased text t
RmRfInText(t) ==
    \E p \in 1..Len(t) :
        /\ RmWordAt(t, p)
        /\ \E q \in (p + 2)..Len(t) :
              /\ SepFree(t, p + 2, q - 1)
              /\ \/ RfClusterAt(t, q)
                 \/ \E pair \in {<<<<"-","r">>, <<"-","f">>>>, <<<<"-","f">>, <<"-","r">>>>,
                                 <<<<"-","-","r","e","c","u","r","s","i","v","e">>, <<"-","-","f","o","r","c","e">>>>,
                                 <<<<"-","-","f","o","r","c","e">>, <<"-","-","r","e","c","u","r","s","i","v","e">>>>} :
                        OptPairAt(t, pair[1], pair[2], q)

\* the end of the whitespace run that starts at position a (a - 1 when none)
RECURSIVE SpaceEnd(_, _)
SpaceEnd(t, a) == IF a <= Len(t) /\ t[a] \in Whitespace THEN SpaceEnd(t, a + 1) ELSE a - 1

\* \b<w1>\s+<w2> somewhere in t; the result is the set of the positions of
\* the last character of w2 over all matches
WordsIn(t, w1, w2) ==
    {SpaceEnd(t, p + Len(w1)) + Len(w2) : p \in
        {p \in 1..Len(t) :
            /\ LitAt(t, w1, p) /\ BoundaryBefore(t, p)
            /\ SpaceEnd(t, p + Len(w1)) >= p + Len(w1)
            /\ LitAt(t, w2, SpaceEnd(t, p + Len(w1)) + 1)}}

\* \bgit\s+push\s+-f\b
GitPushF(t) ==
    \E e \in WordsIn(t, <<"g","i","t">>, <<"p","u","s","h">>) :
        /\ SpaceEnd(t, e + 1) >= e + 1
        /\ LitAt(t, <<"-","f">>, SpaceEnd(t, e + 1) + 1)
        /\ BoundaryAfter(t, SpaceEnd(t, e + 1) + 2)

\* \bgit\s+<sub>\b
GitWord(t, sub) == \E e \in WordsIn(t, <<"g","i","t">>, sub) : BoundaryAfter(t, e)

\* The checks of _dangerous_in_text on the text (original) and its
\* lower-cased form t
DangerousText(original, t) ==
    IF RmRfInText(t) THEN SomeT(REASON_RM_RF_TEXT)
    ELSE IF contains(t, <<"g","i","t"," ","r","e","s","e","t"," ","-","-","h","a","r","d">>) THEN SomeT(REASON_GIT_RESET_HARD)
    ELSE IF contains(t, <<"g","i","t"," ","r","e","s","e","t"," ","-","-","m","e","r","g","e">>) THEN SomeT(REASON_GIT_RESET_MERGE)
    ELSE IF contains(t, <<"g","i","t"," ","c","l","e","a","n"," ","-","f">>) \/ contains(t, <<"g","i","t"," ","c","l","e","a","n"," ","-","-","f","o","r","c","e">>)
         THEN SomeT(REASON_GIT_CLEAN_FORCE)
    ELSE IF /\ contains(t, <<"g","i","t"," ","p","u","s","h"," ","-","-","f","o","r","c","e">>) \/ GitPushF(t)
            /\ ~contains(t, <<"-","-","f","o","r","c","e","-","w","i","t","h","-","l","e","a","s","e">>)
         THEN SomeT(REASON_GIT_PUSH_FORCE)
    ELSE IF /\ GitWord(t, <<"b","r","a","n","c","h">>)
            /\ \E q \in 1..Len(original) : OptAt(original, <<"-","D">>, q)
         THEN SomeT(REASON_GIT_BRANCH_DELETE_FORCE)
    ELSE IF contains(t, <<"g","i","t"," ","s","t","a","s","h"," ","d","r","o","p">>) THEN SomeT(REASON_GIT_STASH_DROP)
    ELSE IF contains(t, <<"g","i","t"," ","s","t","a","s","h"," ","c","l","e","a","r">>) THEN SomeT(REASON_GIT_STASH_CLEAR)
    ELSE IF contains(t, <<"g","i","t"," ","c","h","e","c","k","o","u","t"," ","-","-">>) THEN SomeT(REASON_GIT_CHECKOUT_DOUBLE_DASH)
    ELSE IF /\ GitWord(t, <<"r","e","s","t","o","r","e">>)
            /\ ~contains(t, <<"-","-","s","t","a","g","e","d">>) /\ ~contains(t, <<"-","-","h","e","l","p">>)
            /\ ~contains(t, <<"-","-","v","e","r","s","i","o","n">>)
         THEN IF contains(t, <<"-","-","w","o","r","k","t","r","e","e">>) THEN SomeT(REASON_GIT_RESTORE_WORKTREE)
              ELSE SomeT(REASON_GIT_RESTORE)
    ELSE NoneT

dangerous_in_text(text) == DangerousText(text, lower(text))

\* \bfind\b[^\n;|&]*\s-delete\b
FindDeleteInText(t) ==
    \E p \in 1..Len(t) :
        /\ LitAt(t, <<"f","i","n","d">>, p) /\ BoundaryBefore(t, p) /\ BoundaryAfter(t, p + 3)
        /\ \E q \in (p + 4)..Len(t) : SepFree(t, p + 4, q - 1) /\ OptAt(t, <<"-","d","e","l","e","t","e">>, q)

FindDeleteText(t, stripped) ==
    IF startswith(stripped, <<"e","c","h","o"," ">>) \/ startswith(stripped, <<"r","g"," ">>) THEN NoneT
    ELSE IF FindDeleteInText(t) THEN SomeT(REASON_FIND_DELETE)
    ELSE NoneT

dangerous_find_delete_in_text(text) == FindDeleteText(lower(text), lstrip(lower(text)))

\* `a or b` on optional reasons
OrElse(a, b) == IF a.some THEN a ELSE b

(***************************************************************************)
(* hook.py: _segment_changes_cwd.                                          *)
(***************************************************************************)
RECURSIVE DropGrouping(_)
DropGrouping(tokens) ==
    IF tokens # <<>> /\ tokens[1] \in {<<"{">>, <<"(">>, <<"$","(">>}
    THEN DropGrouping(Tail(tokens)) ELSE tokens

\* the end of the run of ( and { that starts at position a (a - 1 when none)
RECURSIVE ParenEnd(_, _)
ParenEnd(t, a) == IF a <= Len(t) /\ t[a] \in {"(", "{"} THEN ParenEnd(t, a + 1) ELSE a - 1

\* re.match(r"^\s*(?:\$\(\s*)?[\(\{]*\s*(?:command\s+|builtin\s+)?
\*            (?:cd|pushd|popd)(?:\s|$)", segment, IGNORECASE)
\* t is the lower-cased segment.  CdWord: (?:cd|pushd|popd)(?:\s|$) at
\* position a; CdPrefixed: the optional command or builtin at position a3
CdWord(t, a) ==
    \E w \in {<<"c","d">>, <<"p","u","s","h","d">>, <<"p","o","p","d">>} :
        /\ LitAt(t, w, a)
        /\ a + Len(w) > Len(t) \/ t[a + Len(w)] \in Whitespace

CdPrefixed(t, a3) ==
    \/ CdWord(t, a3)
    \/ \E w \in {<<"c","o","m","m","a","n","d">>, <<"b","u","i","l","t","i","n">>} :
          /\ LitAt(t, w, a3) /\ SpaceEnd(t, a3 + Len(w)) >= a3 + Len(w)
          /\ CdWord(t, SpaceEnd(t, a3 + Len(w)) + 1)

\* a2 is the position after the optional $( and its whitespace
CdGrouped(t, a2) == CdPrefixed(t, SpaceEnd(t, ParenEnd(t, a2) + 1) + 1)

\* a1 is the position after the leading whitespace
CdLeading(t, a1) ==
    \/ CdGrouped(t, a1)
    \/ LitAt(t, <<"$","(">>, a1) /\ CdGrouped(t, SpaceEnd(t, a1 + 2) + 1)

CdRegexMatchesLower(t) == CdLeading(t, SpaceEnd(t, 1) + 1)

CdRegexMatches(segment) == CdRegexMatchesLower(lower(segment))

\* t1 is the token list without grouping tokens and wrappers
DropBuiltin(t1) == IF t1 # <<>> /\ lower(t1[1]) = <<"b","u","i","l","t","i","n">> THEN Tail(t1) ELSE t1

CdTokens(t2) == normalize_cmd_token(t2[1]) \in {<<"c","d">>, <<"p","u","s","h","d">>, <<"p","o","p","d">>}

ChangesCwdTokens(segment, t2) ==
    IF t2 # <<>> THEN CdTokens(t2) ELSE CdRegexMatches(segment)

ChangesCwd(segment, lexed) ==
    IF lexed.ok
    THEN ChangesCwdTokens(segment, DropBuiltin(strip_wrappers(DropGrouping(lexed.toks))))
    ELSE CdRegexMatches(segment)

segment_changes_cwd(segment) == ChangesCwd(segment, shlex_split(segment))

(***************************************************************************)
(* rules_rm.py: _analyze_rm.  The file is not part of the sources at hand  *)
(* (hook.py imports it); the definitions of this section follow section    *)
(* 4.E of the specification and the behaviour the rm tests pin down.       *)
(***************************************************************************)
REASON_RM_RF ==
    <<"r","m"," ","-","r","f"," ","o","u","t","s","i","d","e"," ","c","w","d"," ","i","s"," ","b","l","o","c","k","e","d","."," ","U","s","e"," ","e","x","p","l","i","c","i","t"," ","p","a","t","h","s"," ","i","n"," ","t","h","e"," ","c","u","r","r","e","n","t"," ","d","i","r","e","c","t","o","r","y",","," ","o","r"," ","d","e","l","e","t","e"," ","m","a","n","u","a","l","l","y",".">>
REASON_RM_RF_ROOT_HOME ==
    <<"r","m"," ","-","r","f"," ","t","a","r","g","e","t","i","n","g"," ","r","o","o","t"," ","o","r"," ","h","o","m","e"," ","i","s"," ","e","x","t","r","e","m","e","l","y"," ","d","a","n","g","e","r","o","u","s",".">>
PARANOID_RM_SUFFIX ==
    <<" ","[","p","a","r","a","n","o","i","d"," ","m","o","d","e"," ","-"," ","d","i","s","a","b","l","e"," ","w","i","t","h",":"," ","u","n","s","e","t"," ","S","A","F","E","T","Y","_","N","E","T","_","P","A","R","A","N","O","I","D"," ","S","A","F","E","T","Y","_","N","E","T","_","P","A","R","A","N","O","I","D","_","R","M","]">>

\* the home directory of the user the hook runs as ($HOME)
HOME == <<"/","h">>

\* the components of a path, split at "/"
\* slashes is the set of the positions of "/" in t, at(k) the position of
\* the k-th of them; 0 and Len(t) + 1 bound the path
PathSplitAt(t, slashes) ==
    LET at(k) == IF k = 0 THEN 0
                 ELSE IF k > Cardinality(slashes) THEN Len(t) + 1
                 ELSE CHOOSE i \in slashes : Cardinality({j \in slashes : j < i}) = k - 1
    IN [k \in 1..(Cardinality(slashes) + 1) |-> SubSeq(t, at(k - 1) + 1, at(k) - 1)]

PathSplit(t) == PathSplitAt(t, {i \in 1..Len(t) : t[i] = "/"})

\* lexical normalisation of the components of an absolute path: empty and
\* "." components are dropped, ".." removes the component before it
RECURSIVE NormParts(_, _)
NormParts(parts, acc) ==
    IF parts = <<>> THEN acc
    ELSE IF Head(parts) \in {<<>>, <<".">>} THEN NormParts(Tail(parts), acc)
    ELSE IF Head(parts) = <<".",".">>
         THEN NormParts(Tail(parts),
                        IF acc = <<>> THEN acc ELSE SubSeq(acc, 1, Len(acc) - 1))
    ELSE NormParts(Tail(parts), Append(acc, Head(parts)))

\* the normalised components of an absolute path
AbsParts(path) == NormParts(PathSplit(path), <<>>)

\* parts lies at or below the directory whose components are dir
PartsUnder(parts, dir) ==
    Len(parts) >= Len(dir) /\ SubSeq(parts, 1, Len(dir)) = dir

\* the positional targets of rm: the tokens before -- that are no options,
\* and every token after --
RECURSIVE RmTargets(_, _)
RmTargets(rest, after_dd) ==
    IF rest = <<>> THEN <<>>
    ELSE IF ~after_dd /\ Head(rest) = <<"-","-">> THEN RmTargets(Tail(rest), TRUE)
    ELSE IF ~after_dd /\ startswith(Head(rest), <<"-">>) THEN RmTargets(Tail(rest), FALSE)
    ELSE <<Head(rest)>> \o RmTargets(Tail(rest), after_dd)

\* target names root or a home directory
RmTargetRootHome(target) == target = <<"/">> \/ startswith(target, <<"~">>)

\* target is $TMPDIR itself or a child of it, without a .. component
RmTargetTmpdirVar(target) ==
    \E v \in {<<"$","T","M","P","D","I","R">>, <<"$","{","T","M","P","D","I","R","}">>} :
        \/ target = v
        \/ /\ startswith(target, v \o <<"/">>)
           /\ ~member(PathSplit(target), <<".",".">>)

\* tparts are the components of the target taken as an absolute path
RmTargetInTmp(tparts) ==
    PartsUnder(tparts, <<<<"t","m","p">>>>) \/ PartsUnder(tparts, <<<<"v","a","r">>, <<"t","m","p">>>>)

\* resolved and cparts are the components of the target resolved against
\* the cwd, and of the cwd
RmTargetInCwd(resolved, cparts) ==
    /\ cparts # AbsParts(HOME)
    /\ PartsUnder(resolved, cparts)
    /\ Len(resolved) > Len(cparts)

\* target is on the allow-list of section 4.E; cwd = <<>> is the unknown cwd
RmTargetAllowed(target, allow_tmpdir_var, cwd) ==
    IF RmTargetRootHome(target) THEN FALSE
    ELSE IF RmTargetTmpdirVar(target) THEN allow_tmpdir_var
    ELSE IF member(target, "$") THEN FALSE
    ELSE IF startswith(target, <<"/">>) /\ RmTargetInTmp(AbsParts(target)) THEN TRUE
    ELSE IF cwd = <<>> THEN FALSE
    ELSE RmTargetInCwd(AbsParts(IF startswith(target, <<"/">>) THEN target
                                ELSE cwd \o <<"/">> \o target),
                       AbsParts(cwd))

analyze_rm(tokens, allow_tmpdir_var, cwd, paranoid) ==
    LET targets == RmTargets(Tail(tokens), FALSE) IN
    IF ~rm_has_recursive_force(tokens) THEN NoneT
    ELSE IF \E k \in 1..Len(targets) : RmTargetRootHome(targets[k])
         THEN SomeT(REASON_RM_RF_ROOT_HOME)
    ELSE IF paranoid THEN SomeT(REASON_RM_RF \o PARANOID_RM_SUFFIX)
    ELSE IF \A k \in 1..Len(targets) :
                RmTargetAllowed(targets[k], allow_tmpdir_var, cwd)
         THEN NoneT
    ELSE SomeT(REASON_RM_RF)

(***************************************************************************)
(* hook.py: _analyze_segment.                                              *)
(*                                                                         *)
(* A result is Allow (Python's None) or Deny(segment, reason).  The        *)
(* context ctx of an analysis carries depth, cwd (<<>> = None), strict,    *)
(* paranoid_rm, paranoid_interpreters and config, the sequence of the      *)
(* custom rules in force (empty = no config or no rules: the code only     *)
(* tests `config is not None and config.rules`).                           *)
(*                                                                         *)
(* _analyze_segment calls _analyze_command recursively.  SegPlan computes  *)
(* everything of one call of _analyze_segment except those calls: calls    *)
(* is the sequence of command strings it recurses into, in order, and post *)
(* is its result when there is no recursion or every recursion allows.     *)
(* Every recursion is guarded by the depth test, and a recursion that      *)
(* denies is the result of the segment.                                    *)
(***************************************************************************)
MAX_RECURSION_DEPTH == 5

STRICT_SUFFIX == <<" ","[","s","t","r","i","c","t"," ","m","o","d","e"," ","-"," ","d","i","s","a","b","l","e"," ","w","i","t","h",":"," ","u","n","s","e","t"," ","S","A","F","E","T","Y","_","N","E","T","_","S","T","R","I","C","T","]">>
PARANOID_INTERPRETERS_SUFFIX ==
    <<" ","[","p","a","r","a","n","o","i","d"," ","m","o","d","e"," ","-"," ","d","i","s","a","b","l","e"," ","w","i","t","h",":"," ","u","n","s","e","t"," ","S","A","F","E","T","Y","_","N","E","T","_","P","A","R","A","N","O","I","D"," ","S","A","F","E","T","Y","_","N","E","T","_","P","A","R","A","N","O","I","D","_","I","N","T","E","R","P","R","E","T","E","R","S","]">>
REASON_XARGS_RM_RF ==
    <<"x","a","r","g","s"," ","c","a","n"," ","f","e","e","d"," ","a","r","b","i","t","r","a","r","y"," ","i","n","p","u","t"," ","t","o"," ","r","m"," ","-","r","f","."," ","L","i","s","t"," ","f","i","l","e","s"," ","f","i","r","s","t",","," ","t","h","e","n"," ","d","e","l","e","t","e"," ","i","n","d","i","v","i","d","u","a","l","l","y",".">>
REASON_PARALLEL_RM_RF ==
    <<"p","a","r","a","l","l","e","l"," ","c","a","n"," ","f","e","e","d"," ","a","r","b","i","t","r","a","r","y"," ","i","n","p","u","t"," ","t","o"," ","r","m"," ","-","r","f","."," ","L","i","s","t"," ","f","i","l","e","s"," ","f","i","r","s","t",","," ","t","h","e","n"," ","d","e","l","e","t","e"," ","i","n","d","i","v","i","d","u","a","l","l","y",".">>
REASON_RECURSION_LIMIT == <<"C","o","m","m","a","n","d"," ","a","n","a","l","y","s","i","s"," ","r","e","c","u","r","s","i","o","n"," ","l","i","m","i","t"," ","r","e","a","c","h","e","d",".">>
REASON_UNPARSEABLE == <<"U","n","a","b","l","e"," ","t","o"," ","p","a","r","s","e"," ","s","h","e","l","l"," ","c","o","m","m","a","n","d"," ","s","a","f","e","l","y",".">> \o STRICT_SUFFIX
REASON_UNPARSEABLE_DASH_C == <<"U","n","a","b","l","e"," ","t","o"," ","p","a","r","s","e"," ","s","h","e","l","l"," ","-","c"," ","w","r","a","p","p","e","r"," ","s","a","f","e","l","y",".">> \o STRICT_SUFFIX
REASON_INTERPRETER == <<"C","a","n","n","o","t"," ","s","a","f","e","l","y"," ","a","n","a","l","y","z","e"," ","i","n","t","e","r","p","r","e","t","e","r"," ","o","n","e","-","l","i","n","e","r","s",".">> \o PARANOID_INTERPRETERS_SUFFIX
ArbitraryReason(tool, shell) ==
    tool \o <<" ">> \o shell \o <<" ","-","c"," ","c","a","n"," ","e","x","e","c","u","t","e"," ","a","r","b","i","t","r","a","r","y"," ","c","o","m","m","a","n","d","s"," ","f","r","o","m"," ","i","n","p","u","t",".">>

Shells == {<<"b","a","s","h">>, <<"s","h">>, <<"z","s","h">>, <<"d","a","s","h">>, <<"k","s","h">>}
Interpreters == {<<"p","y","t","h","o","n">>, <<"p","y","t","h","o","n","3">>, <<"n","o","d","e">>, <<"r","u","b","y">>, <<"p","e","r","l">>}

Allow == [deny |-> FALSE, seg |-> <<>>, reason |-> <<>>]
Deny(segment, reason) == [deny |-> TRUE, seg |-> segment, reason |-> reason]
\* `(segment, reason) if reason else None`
FromReason(segment, r) == IF r.some THEN Deny(segment, r.v) ELSE Allow

Direct(result) == [calls |-> <<>>, post |-> result]
Recurse(calls, post) == [calls |-> calls, post |-> post]

\* re.search(r"\bTMPDIR=", segment)
TmpdirAssigned(segment) ==
    \E p \in 1..Len(segment) : LitAt(segment, <<"T","M","P","D","I","R","=">>, p) /\ BoundaryBefore(segment, p)

\* a faulty variant of CustomResult, which C6 rules out: the rules are
\* matched at every depth
CustomResult_AnyDepth(segment, tokens, ctx) ==
    IF ctx.config # <<>>
    THEN FromReason(segment, check_custom_rules(tokens, ctx.config))
    ELSE Allow

\* `if depth == 0 and config is not None and config.rules:` and the check
CustomResult(segment, tokens, ctx) ==
    IF ctx.depth = 0 /\ ctx.config # <<>>
    THEN FromReason(segment, check_custom_rules(tokens, ctx.config))
    ELSE Allow

\* a faulty variant of RmResult, which C11 rules out: the targets after --
\* are not looked at
RmResult_BeforeDoubleDash(segment, rm_tokens, ctx) ==
    analyze_rm(<<<<"r","m">>>> \o UpToDoubleDash(Tail(rm_tokens)), ~TmpdirAssigned(segment),
               ctx.cwd, ctx.paranoid_rm)

\* a faulty variant of RmResult, which C12 rules out: SAFETY_NET_PARANOID_RM
\* is not passed on to the rm analysis
RmResult_NoParanoid(segment, rm_tokens, ctx) ==
    analyze_rm(rm_tokens, ~TmpdirAssigned(segment), ctx.cwd, FALSE)

RmResult(segment, rm_tokens, ctx) ==
    analyze_rm(rm_tokens, ~TmpdirAssigned(segment), ctx.cwd, ctx.paranoid_rm)

\* "{}" in some token
AnyHasBraces(tokens) == \E k \in 1..Len(tokens) : contains(tokens[k], <<"{","}">>)

\* a faulty variant of RmTemplates, which C20 rules out: the argument is
\* appended also to a template with {}
RmTemplates_AppendOnly(template, args) ==
    IF args = <<>> THEN <<template>>
    ELSE [a \in 1..Len(args) |-> Append(template, args[a])]

\* the rm command lines parallel materialises from a template and the
\* arguments after :::
RmTemplates(template, args) ==
    IF args = <<>> THEN <<template>>
    ELSE IF AnyHasBraces(template)
         THEN [a \in 1..Len(args) |->
                  [k \in 1..Len(template) |-> replace(template[k], <<"{","}">>, args[a])]]
    ELSE [a \in 1..Len(args) |-> Append(template, args[a])]

\* the first reason _analyze_rm gives for one of the command lines
RECURSIVE FirstRmReason(_, _, _)
FirstRmReason(segment, templates, ctx) ==
    IF templates = <<>> THEN NoneT
    ELSE OrElse(RmResult(segment, <<<<"r","m">>>> \o Tail(Head(templates)), ctx),
                FirstRmReason(segment, Tail(templates), ctx))

\* `if reason: return segment, reason`, otherwise go on with the rest
OrDeny(segment, r, otherwise) == IF r.some THEN Deny(segment, r.v) ELSE otherwise

\* One token of the loop over tokens[1:] that looks for embedded rm, git
\* and find: cmd is the normalised token, tail the tokens after it
EmbeddedAt(segment, cmd, tail, ctx) ==
    IF cmd = <<"r","m">> THEN RmResult(segment, <<<<"r","m">>>> \o tail, ctx)
    ELSE IF cmd = <<"g","i","t">> THEN analyze_git(<<<<"g","i","t">>>> \o tail)
    ELSE IF cmd = <<"f","i","n","d">> THEN find_dangerous_action(tail)
    ELSE NoneT

RECURSIVE EmbeddedScan(_, _, _, _)
EmbeddedScan(segment, tokens, i, ctx) ==
    IF i > Len(tokens) THEN NoneT
    ELSE OrElse(EmbeddedAt(segment, normalize_cmd_token(tokens[i]), From(tokens, i), ctx),
                EmbeddedScan(segment, tokens, i + 1, ctx))

\* head is busybox with the applet (rm or find) as its second token
IsBusybox(tokens, head, applet) ==
    head = <<"b","u","s","y","b","o","x">> /\ Len(tokens) >= 2 /\ normalize_cmd_token(tokens[2]) = applet

\* the reason of the analyzer of the head: git, find and busybox find
HeadReason(tokens, head) ==
    IF head = <<"g","i","t">> THEN analyze_git(<<<<"g","i","t">>>> \o Tail(tokens))
    ELSE IF head = <<"f","i","n","d">> \/ IsBusybox(tokens, head, <<"f","i","n","d">>)
         THEN find_dangerous_action(IF head = <<"f","i","n","d">> THEN Tail(tokens) ELSE From(tokens, 2))
    ELSE NoneT

\* the part of _analyze_segment after the shell and interpreter branches
\* for a head that is neither xargs nor parallel: busybox, git, rm, find,
\* then the embedded scan, the text heuristic and the custom rules
OtherPlan(segment, tokens, head, ctx) ==
    IF IsBusybox(tokens, head, <<"r","m">>)
    THEN FromReason(segment, RmResult(segment, <<<<"r","m">>>> \o From(tokens, 2), ctx))
    ELSE IF head = <<"r","m">>
    THEN OrDeny(segment, RmResult(segment, <<<<"r","m">>>> \o Tail(tokens), ctx),
                CustomResult(segment, tokens, ctx))
    ELSE OrDeny(segment,
                OrElse(HeadReason(tokens, head),
                       IF head \in {<<"g","i","t">>, <<"f","i","n","d">>} THEN NoneT
                       ELSE OrElse(EmbeddedScan(segment, tokens, 2, ctx),
                                   dangerous_in_text(segment))),
                CustomResult(segment, tokens, ctx))

\* the analyzers both dispatchers run on a child command that is no shell:
\* the reason of the rm analysis of a parallel template
ParallelRmReason(segment, rm_tokens, ex, ctx) ==
    IF ex.args_dynamic /\ rm_has_recursive_force(<<<<"r","m">>>> \o Tail(rm_tokens))
    THEN SomeT(REASON_PARALLEL_RM_RF)
    ELSE FirstRmReason(segment, RmTemplates(rm_tokens, ex.args), ctx)

\* the reason of the rm analysis of a child command: under xargs (ex is
\* none) of the rm command itself, under parallel (ex is the extracted
\* template and arguments) of the template
ChildRmReason(segment, rm_tokens, ex, ctx) ==
    IF ex.some THEN ParallelRmReason(segment, rm_tokens, ex.v, ctx)
    ELSE RmResult(segment, <<<<"r","m">>>> \o Tail(rm_tokens), ctx)

\* the analyzers both dispatchers run on a child command that is no shell:
\* busybox rm|find, git, rm, find; ex is as in ChildRmReason
ChildPlan(segment, tokens, child, child_head, ex, ctx) ==
    IF IsBusybox(child, child_head, <<"r","m">>)
    THEN FromReason(segment, ChildRmReason(segment, <<<<"r","m">>>> \o From(child, 2), ex, ctx))
    ELSE IF child_head = <<"g","i","t">>
    THEN FromReason(segment, analyze_git(<<<<"g","i","t">>>> \o Tail(child)))
    ELSE IF child_head = <<"r","m">>
    THEN FromReason(segment, ChildRmReason(segment, child, ex, ctx))
    ELSE OrDeny(segment,
                IF child_head = <<"f","i","n","d">> \/ IsBusybox(child, child_head, <<"f","i","n","d">>)
                THEN find_dangerous_action(IF child_head = <<"f","i","n","d">> THEN Tail(child)
                                           ELSE From(child, 2))
                ELSE NoneT,
                CustomResult(segment, tokens, ctx))

\* `reason and reason.startswith("rm -rf")`
IsRmRfReason(r) == r.some /\ startswith(r.v, <<"r","m"," ","-","r","f">>)

\* the child of xargs is a shell; cmd_str is its -c argument, post the
\* rest of the analysis
XargsShell(segment, tokens, child, cmd_str, repl_tokens, post) ==
    IF cmd_str.some
    THEN IF repl_tokens # {} /\ strip(cmd_str.v) \in repl_tokens
         THEN Direct(Deny(segment, ArbitraryReason(<<"x","a","r","g","s">>, child[1])))
         ELSE IF /\ \E r \in repl_tokens : r # <<>> /\ contains(cmd_str.v, r)
                 /\ IsRmRfReason(dangerous_in_text(cmd_str.v))
         THEN Direct(Deny(segment, REASON_XARGS_RM_RF))
         ELSE Recurse(<<cmd_str.v>>, post)
    ELSE IF has_shell_dash_c(child)
         THEN Direct(Deny(segment, ArbitraryReason(<<"x","a","r","g","s">>, child[1])))
    ELSE Direct(post)

XargsHead(segment, tokens, child, child_head, post) ==
    IF child_head = <<"r","m">> /\ rm_has_recursive_force(<<<<"r","m">>>> \o Tail(child))
    THEN Direct(Deny(segment, REASON_XARGS_RM_RF))
    ELSE IF /\ child_head = <<"b","u","s","y","b","o","x">> /\ Len(child) >= 3
            /\ normalize_cmd_token(child[2]) = <<"r","m">>
            /\ rm_has_recursive_force(<<<<"r","m">>>> \o From(child, 2))
         THEN Direct(Deny(segment, REASON_XARGS_RM_RF))
    ELSE IF child_head \in Shells
         THEN XargsShell(segment, tokens, child, extract_dash_c_arg(child),
                         xargs_replacement_tokens(tokens), post)
    ELSE Direct(post)

\* child is the wrapper-stripped child command
XargsChild(segment, tokens, child, child_head, ctx) ==
    XargsHead(segment, tokens, child, child_head,
              ChildPlan(segment, tokens, child, child_head, NoneL, ctx))

XargsStripped(segment, tokens, child, ctx) ==
    IF child = <<>> THEN Direct(Allow)
    ELSE XargsChild(segment, tokens, child, normalize_cmd_token(child[1]), ctx)

XargsExtracted(segment, tokens, extracted, ctx) ==
    IF ~extracted.some THEN Direct(CustomResult(segment, tokens, ctx))
    ELSE XargsStripped(segment, tokens, strip_wrappers(extracted.v), ctx)

XargsPlan(segment, tokens, ctx) ==
    XargsExtracted(segment, tokens, extract_xargs_child_command(tokens), ctx)

\* the template of parallel is a shell; cmd_str is its -c argument, ex the
\* extracted template and arguments, post the rest of the analysis
ParallelShell(segment, template, cmd_str, braces, ex, post) ==
    IF cmd_str.some
    THEN IF braces /\ ex.args_dynamic /\ strip(cmd_str.v) = <<"{","}">>
         THEN Direct(Deny(segment, ArbitraryReason(<<"p","a","r","a","l","l","e","l">>, template[1])))
         ELSE IF braces /\ ex.args_dynamic /\ IsRmRfReason(dangerous_in_text(cmd_str.v))
         THEN Direct(Deny(segment, REASON_PARALLEL_RM_RF))
         ELSE IF braces /\ ~ex.args_dynamic /\ ex.args # <<>>
         THEN Recurse([a \in 1..Len(ex.args) |-> replace(cmd_str.v, <<"{","}">>, ex.args[a])],
                      Allow)
         ELSE Recurse(<<cmd_str.v>>, post)
    ELSE IF has_shell_dash_c(template)
         THEN Direct(Deny(segment, ArbitraryReason(<<"p","a","r","a","l","l","e","l">>, template[1])))
    ELSE Direct(post)

ParallelCmd(segment, template, cmd_str, ex, post) ==
    ParallelShell(segment, template, cmd_str, contains(cmd_str.v, <<"{","}">>), ex, post)

ParallelHead(segment, template, template_head, ex, post) ==
    IF template_head \in Shells
    THEN ParallelCmd(segment, template, extract_dash_c_arg(template), ex, post)
    ELSE Direct(post)

ParallelTemplate(segment, tokens, template, template_head, ex, ctx) ==
    ParallelHead(segment, template, template_head, ex,
                 ChildPlan(segment, tokens, template, template_head, SomeL(ex), ctx))

ParallelStripped(segment, tokens, template, ex, ctx) ==
    IF template = <<>>
    THEN Recurse(IF ex.args_dynamic THEN <<>> ELSE ex.args, CustomResult(segment, tokens, ctx))
    ELSE ParallelTemplate(segment, tokens, template, normalize_cmd_token(template[1]), ex, ctx)

ParallelExtracted(segment, tokens, ex, ctx) ==
    IF ~ex.some THEN Direct(Allow)
    ELSE ParallelStripped(segment, tokens, strip_wrappers(ex.template), ex, ctx)

ParallelPlan(segment, tokens, ctx) ==
    ParallelExtracted(segment, tokens, extract_parallel_template_and_args(tokens), ctx)

\* `_dangerous_in_text(text) or _dangerous_find_delete_in_text(text)`
TextReason(text) == OrElse(dangerous_in_text(text), dangerous_find_delete_in_text(text))

\* a faulty variant of SegShell, which C24 rules out: a shell whose code
\* allows is not analyzed any further
SegShell_CodeOnly(segment, tokens, cmd_str, ctx, other) ==
    IF cmd_str.some THEN Recurse(<<cmd_str.v>>, Allow)
    ELSE IF ctx.strict /\ has_shell_dash_c(tokens)
         THEN Direct(Deny(segment, REASON_UNPARSEABLE_DASH_C))
    ELSE Direct(other)

\* a faulty variant of SegShell, which C30 rules out: in strict mode the code
\* of a shell is not analyzed
SegShell_StrictSkips(segment, tokens, cmd_str, ctx, other) ==
    IF cmd_str.some
    THEN IF ctx.strict THEN Direct(other) ELSE Recurse(<<cmd_str.v>>, other)
    ELSE IF ctx.strict /\ has_shell_dash_c(tokens)
         THEN Direct(Deny(segment, REASON_UNPARSEABLE_DASH_C))
    ELSE Direct(other)

\* head is a shell: cmd_str is its -c argument, other the result of the
\* rest of the analysis
SegShell(segment, tokens, cmd_str, ctx, other) ==
    IF cmd_str.some THEN Recurse(<<cmd_str.v>>, other)
    ELSE IF ctx.strict /\ has_shell_dash_c(tokens)
         THEN Direct(Deny(segment, REASON_UNPARSEABLE_DASH_C))
    ELSE Direct(other)

\* head is an interpreter: code is its -c / -e argument
SegInterpreter(segment, code, ctx, other) ==
    IF ~code.some THEN other
    ELSE OrDeny(segment, TextReason(code.v),
                IF ctx.paranoid_interpreters THEN Deny(segment, REASON_INTERPRETER)
                ELSE other)

\* other is the result of OtherPlan for the segment
SegDispatch(segment, tokens, head, ctx, other) ==
    IF head \in Shells THEN SegShell(segment, tokens, extract_dash_c_arg(tokens), ctx, other)
    ELSE IF head \in Interpreters
         THEN Direct(SegInterpreter(segment, extract_pythonish_code_arg(tokens), ctx, other))
    ELSE IF head = <<"x","a","r","g","s">> THEN XargsPlan(segment, tokens, ctx)
    ELSE IF head = <<"p","a","r","a","l","l","e","l">> THEN ParallelPlan(segment, tokens, ctx)
    ELSE Direct(other)

SegHead(segment, tokens, head, ctx) ==
    SegDispatch(segment, tokens, head, ctx, OtherPlan(segment, tokens, head, ctx))

\* tokens is the wrapper-stripped token list
SegTokens(segment, tokens, ctx) ==
    IF tokens = <<>> THEN Direct(Allow)
    ELSE SegHead(segment, tokens, normalize_cmd_token(tokens[1]), ctx)

\* a faulty variant of SegLexed, which C9 rules out: an unparseable segment
\* is allowed
SegLexed_FailOpen(segment, lexed, ctx) ==
    IF ~lexed.ok \/ lexed.toks = <<>> THEN Direct(Allow)
    ELSE SegTokens(segment, strip_wrappers(lexed.toks), ctx)

SegLexed(segment, lexed, ctx) ==
    IF ~lexed.ok
    THEN IF ctx.strict THEN Direct(Deny(segment, REASON_UNPARSEABLE))
         ELSE Direct(FromReason(segment, TextReason(segment)))
    ELSE IF lexed.toks = <<>> THEN Direct(Allow)
    ELSE SegTokens(segment, strip_wrappers(lexed.toks), ctx)

SegPlan(segment, ctx) == SegLexed(segment, shlex_split(segment), ctx)

(***************************************************************************)
(* config.py: loading and merging the configuration.  A config file is     *)
(* modelled by the rules array of its JSON object (version 1, every field  *)
(* of a rule a string or a list of strings); a file without rules and a    *)
(* missing file both load as no rules.                                     *)
(***************************************************************************)
MAX_REASON_LENGTH == 256
NameChars == UpperSet \cup LowerSet \cup Digits \cup {"_", "-"}
\* the text a $ at the end of a pattern matches up to: $ also matches
\* before a final newline
DollarEnd(t) == IF t # <<>> /\ t[Len(t)] = "\n" THEN SubSeq(t, 1, Len(t) - 1) ELSE t
\* ^[a-zA-Z][a-zA-Z0-9_-]{0,most}$
PatternMatches(t, most) ==
    LET core == DollarEnd(t) IN
    /\ Len(core) >= 1 /\ Len(core) - 1 <= most
    /\ ch_isalpha(core[1])
    /\ \A i \in 2..Len(core) : core[i] \in NameChars
NAME_PATTERN(t) == PatternMatches(t, 63)
COMMAND_PATTERN(t) == PatternMatches(t, Len(t))

\* _validate_rule raises no ConfigError
validate_rule(rule_data, seen_names) ==
    /\ NAME_PATTERN(rule_data.name)
    /\ lower(rule_data.name) \notin seen_names
    /\ COMMAND_PATTERN(rule_data.command)
    /\ rule_data.subcommand.some => COMMAND_PATTERN(rule_data.subcommand.v)
    /\ rule_data.block_args # <<>>
    /\ \A i \in 1..Len(rule_data.block_args) : rule_data.block_args[i] # <<>>
    /\ rule_data.reason # <<>> /\ Len(rule_data.reason) <= MAX_REASON_LENGTH

RECURSIVE ValidateRules(_, _, _)
\* the loop of _validate_config from rule i on
ValidateRules(rules_data, i, seen_names) ==
    IF i > Len(rules_data) THEN TRUE
    ELSE /\ validate_rule(rules_data[i], seen_names)
         /\ ValidateRules(rules_data, i + 1, seen_names \cup {lower(rules_data[i].name)})

\* a faulty variant of load_single_config, which C22 rules out: the rules
\* of an invalid file are used
load_single_config_Unchecked(rules_data) == SomeL(rules_data)

\* the Config of a file, NoneL if the file is invalid
load_single_config(rules_data) ==
    IF ValidateRules(rules_data, 1, {}) THEN SomeL(rules_data) ELSE NoneL

RuleNames(rules) == {lower(rules[k].name) : k \in 1..Len(rules)}

\* a faulty variant of merge_configs, which C22 rules out: the names are
\* compared as they are written
merge_configs_CaseSensitive(user_config, project_config) ==
    SelectSeq(user_config.v,
              LAMBDA rule : \A k \in 1..Len(project_config.v) :
                                rule.name # project_config.v[k].name)
        \o project_config.v

\* the rules of the merged Config
merge_configs(user_config, project_config) ==
    IF ~user_config.some /\ ~project_config.some THEN <<>>
    ELSE IF ~user_config.some THEN project_config.v
    ELSE IF ~project_config.some THEN user_config.v
    ELSE SelectSeq(user_config.v,
                   LAMBDA rule : lower(rule.name) \notin RuleNames(project_config.v))
            \o project_config.v

\* files = [user |-> rules of ~/.cc-safety-net/config.json,
\*          project |-> rules of <cwd>/.safety-net.json]; cwd = <<>> is None
load_config(cwd, files) ==
    merge_configs(load_single_config(files.user),
                  IF cwd # <<>> THEN load_single_config(files.project) ELSE NoneL)

(***************************************************************************)
(* hook.py: _analyze_command and _analyze_segment as functions.  ctx.files *)
(* are the config files load_config reads.                                 *)
(***************************************************************************)
\* a faulty variant of AfterSegment, which C5 rules out: the cwd is kept
AfterSegment_Keep(segment, ctx) == ctx

\* the context of the segments after `segment` in _analyze_command
AfterSegment(segment, ctx) ==
    IF ctx.cwd # <<>> /\ segment_changes_cwd(segment)
    THEN [ctx EXCEPT !.cwd = <<>>, !.config = load_config(<<>>, ctx.files)]
    ELSE ctx

RECURSIVE AnalyzeSegments(_, _)
RECURSIVE FirstDenyOfCalls(_, _)

\* `if analyzed: return analyzed`, otherwise go on
OrAnalyzed(analyzed, otherwise) == IF analyzed.deny THEN analyzed ELSE otherwise

RunPlan(segment, plan, ctx) ==
    IF plan.calls = <<>> THEN plan.post
    ELSE IF ctx.depth >= MAX_RECURSION_DEPTH THEN Deny(segment, REASON_RECURSION_LIMIT)
    ELSE OrAnalyzed(FirstDenyOfCalls(plan.calls, [ctx EXCEPT !.depth = @ + 1]), plan.post)

analyze_segment(segment, ctx) == RunPlan(segment, SegPlan(segment, ctx), ctx)

AnalyzeSegments(segments, ctx) ==
    IF segments = <<>> THEN Allow
    ELSE OrAnalyzed(analyze_segment(Head(segments), ctx),
                    AnalyzeSegments(Tail(segments), AfterSegment(Head(segments), ctx)))

analyze_command(command, ctx) == AnalyzeSegments(split_shell_commands(command), ctx)

FirstDenyOfCalls(calls, ctx) ==
    IF calls = <<>> THEN Allow
    ELSE OrAnalyzed(analyze_command(Head(calls), ctx), FirstDenyOfCalls(Tail(calls), ctx))

(***************************************************************************)
(* hook.py: _redact_secrets, _format_safe_excerpt and the text main prints *)
(* for a deny.                                                             *)
(*                                                                         *)
(* Each re.sub of _redact_secrets is modelled by the match of its pattern  *)
(* at one position: the position of the last character of the match (0     *)
(* when the pattern does not match there), the replacement, and the parts  *)
(* of the match that the replacement leaves out.  The quantifiers of the   *)
(* patterns are greedy runs up to a delimiter the run cannot contain, so   *)
(* the match at a position is unique.                                      *)
(***************************************************************************)
REDACTED == <<"<","r","e","d","a","c","t","e","d",">">>
WordSet == UpperSet \cup LowerSet \cup Digits \cup {"_"}
QuoteSet == {"\"", "'"}
SecretKeywords ==
    {<<"t","o","k","e","n">>, <<"s","e","c","r","e","t">>, <<"p","a","s","s","w","o","r","d">>, <<"p","a","s","s">>, <<"k","e","y">>, <<"c","r","e","d","e","n","t","i","a","l","s">>}

\* the first position from a on whose character is in cs, or is not in cs
\* (Len(t) + 1 when there is none)
FirstIn(t, a, cs) ==
    LET ps == {k \in a..Len(t) : t[k] \in cs} IN
    IF ps = {} THEN Len(t) + 1 ELSE CHOOSE k \in ps : \A j \in ps : k <= j
FirstNotIn(t, a, cs) ==
    LET ps == {k \in a..Len(t) : t[k] \notin cs} IN
    IF ps = {} THEN Len(t) + 1 ELSE CHOOSE k \in ps : \A j \in ps : k <= j

NoMatch == [end |-> 0, repl |-> <<>>, secrets |-> {}]
Match(end, repl, secrets) == [end |-> end, repl |-> repl, secrets |-> secrets]

\* \b([A-Z0-9_]*(?:TOKEN|SECRET|PASSWORD|PASS|KEY|CREDENTIALS)[A-Z0-9_]*)=([^\s]+)
\* with IGNORECASE, replaced by \1=<redacted>
KeyValueAt(t, p) ==
    LET e == FirstNotIn(t, p, WordSet)
        v == FirstIn(t, e + 1, Whitespace)
    IN  IF /\ ch_isword(t[p]) /\ BoundaryBefore(t, p)
           /\ e <= Len(t) /\ t[e] = "="
           /\ \E w \in SecretKeywords : contains(lower(SubSeq(t, p, e - 1)), w)
           /\ v > e + 1
        THEN Match(v - 1, SubSeq(t, p, e) \o REDACTED, {SubSeq(t, e + 1, v - 1)})
        ELSE NoMatch

\* authorization\s*:\s* with IGNORECASE at position p: the position after
\* it (0 when it does not match)
AuthorizationEnd(t, p) ==
    LET b == FirstNotIn(t, p + 13, Whitespace) IN
    IF LitAt(lower(t), <<"a","u","t","h","o","r","i","z","a","t","i","o","n">>, p) /\ b <= Len(t) /\ t[b] = ":"
    THEN FirstNotIn(t, b + 1, Whitespace) ELSE 0

\* (?i)(["']\s*authorization\s*:\s*)([^"']+)(["']), replaced by
\* \1<redacted>\3; when only whitespace stands before the closing quote the
\* last whitespace character is the second group
AuthQuotedAt(t, p) ==
    LET c == AuthorizationEnd(t, FirstNotIn(t, p + 1, Whitespace))
        q == FirstIn(t, c, QuoteSet)
        g == IF c < q THEN c ELSE q - 1
    IN  IF t[p] \in QuoteSet /\ c > 0 /\ q <= Len(t) /\ (c < q \/ t[q - 1] \in Whitespace)
        THEN Match(q, SubSeq(t, p, g - 1) \o REDACTED \o <<t[q]>>, {SubSeq(t, g, q - 1)})
        ELSE NoMatch

\* (?i)(authorization\s*:\s*)([^\s"']+)(\s+[^\s"']+), replaced by
\* \1<redacted>
AuthPairAt(t, p) ==
    LET c == AuthorizationEnd(t, p)
        r1 == FirstIn(t, c, Whitespace \cup QuoteSet)
        s == FirstNotIn(t, r1, Whitespace)
        r2 == FirstIn(t, s, Whitespace \cup QuoteSet)
    IN  IF c > 0 /\ r1 > c /\ s > r1 /\ r2 > s
        THEN Match(r2 - 1, SubSeq(t, p, c - 1) \o REDACTED,
                   {SubSeq(t, c, r1 - 1), SubSeq(t, s, r2 - 1)})
        ELSE NoMatch

\* (?i)(authorization\s*:\s*)([^\s"']+), replaced by \1<redacted>
AuthAt(t, p) ==
    LET c == AuthorizationEnd(t, p)
        r1 == FirstIn(t, c, Whitespace \cup QuoteSet)
    IN  IF c > 0 /\ r1 > c
        THEN Match(r1 - 1, SubSeq(t, p, c - 1) \o REDACTED, {SubSeq(t, c, r1 - 1)})
        ELSE NoMatch

\* (?i)(https?://)([^\s/:@]+):([^\s@]+)@, replaced by
\* \1<redacted>:<redacted>@
UrlCredentialsAt(t, p) ==
    LET u == IF LitAt(lower(t), <<"h","t","t","p",":","/","/">>, p) THEN p + 7
             ELSE IF LitAt(lower(t), <<"h","t","t","p","s",":","/","/">>, p) THEN p + 8 ELSE 0
        c == FirstIn(t, u, Whitespace \cup {"/", ":", "@"})
        a == FirstIn(t, c + 1, Whitespace \cup {"@"})
    IN  IF u > 0 /\ c > u /\ c <= Len(t) /\ t[c] = ":" /\ a > c + 1 /\ a <= Len(t) /\ t[a] = "@"
        THEN Match(a, SubSeq(t, p, u - 1) \o REDACTED \o <<":">> \o REDACTED \o <<"@">>,
                   {SubSeq(t, u, c - 1), SubSeq(t, c + 1, a - 1)})
        ELSE NoMatch

\* \bgh[pousr]_[A-Za-z0-9]{20,}\b, replaced by <redacted>
GithubTokenAt(t, p) ==
    LET e == FirstNotIn(t, p + 4, WordSet \ {"_"}) IN
    IF /\ \E k \in {<<"g","h","p","_">>, <<"g","h","o","_">>, <<"g","h","u","_">>, <<"g","h","s","_">>, <<"g","h","r","_">>} : LitAt(t, k, p)
       /\ BoundaryBefore(t, p)
       /\ e - (p + 4) >= 20
       /\ BoundaryAfter(t, e - 1)
    THEN Match(e - 1, REDACTED, {SubSeq(t, p, e - 1)})
    ELSE NoMatch

SecretPatterns == <<"key_value", "auth_quoted", "auth_pair", "auth", "url", "github">>
SecretMatchAt(pattern, t, p) ==
    CASE pattern = "key_value" -> KeyValueAt(t, p)
      [] pattern = "auth_quoted" -> AuthQuotedAt(t, p)
      [] pattern = "auth_pair" -> AuthPairAt(t, p)
      [] pattern = "auth" -> AuthAt(t, p)
      [] pattern = "url" -> UrlCredentialsAt(t, p)
      [] pattern = "github" -> GithubTokenAt(t, p)

\* re.sub over t from position a on: the leftmost match is replaced and the
\* scan goes on behind it
RECURSIVE re_sub(_, _, _)
re_sub(pattern, t, a) ==
    LET ps == {p \in a..Len(t) : SecretMatchAt(pattern, t, p).end > 0} IN
    IF ps = {} THEN SubSeq(t, a, Len(t))
    ELSE LET p == CHOOSE k \in ps : \A j \in ps : k <= j
             m == SecretMatchAt(pattern, t, p)
         IN  SubSeq(t, a, p - 1) \o m.repl \o re_sub(pattern, t, m.end + 1)

RECURSIVE RedactFrom(_, _)
RedactFrom(t, k) ==
    IF k > Len(SecretPatterns) THEN t
    ELSE RedactFrom(re_sub(SecretPatterns[k], t, 1), k + 1)
redact_secrets(text) == RedactFrom(text, 1)

\* the one character U+2026
ELLIPSIS == <<"<U+2026>">>
ExcerptLimit == 300
format_safe_excerpt(label, text) ==
    LET r == redact_secrets(text) IN
    label \o <<":"," ">> \o (IF Len(r) > ExcerptLimit THEN SubSeq(r, 1, ExcerptLimit) \o ELLIPSIS ELSE r)
          \o <<"\n","\n">>

\* the permissionDecisionReason main prints for a deny
PermissionDecisionReason(command, segment, reason) ==
    <<"B","L","O","C","K","E","D"," ","b","y"," ","S","a","f","e","t","y"," ","N","e","t","\n","\n">> \o <<"R","e","a","s","o","n",":"," ">> \o reason \o <<"\n","\n">>
        \o format_safe_excerpt(<<"C","o","m","m","a","n","d">>, command)
        \o format_safe_excerpt(<<"S","e","g","m","e","n","t">>, segment)
        \o <<"I","f"," ","t","h","i","s"," ","o","p","e","r","a","t","i","o","n"," ","i","s"," ","t","r","u","l","y"," ","n","e","e","d","e","d",","," ","a","s","k"," ","t","h","e"," ","u","s","e","r"," ","f","o","r"," ","e","x","p","l","i","c","i","t"," ">>
        \o <<"p","e","r","m","i","s","s","i","o","n"," ","a","n","d"," ","h","a","v","e"," ","t","h","e","m"," ","r","u","n"," ","t","h","e"," ","c","o","m","m","a","n","d"," ","m","a","n","u","a","l","l","y",".">>

(***************************************************************************)
(* hook.py: the audit log of the denied commands.                          *)
(***************************************************************************)
\* [A-Za-z0-9_.-]
SessionIdChars == UpperSet \cup LowerSet \cup Digits \cup {"_", ".", "-"}
SessionIdLimit == 128
\* the last position whose character is not in cs (0 when there is none)
LastNotIn(t, cs) ==
    LET ps == {k \in 1..Len(t) : t[k] \notin cs} IN
    IF ps = {} THEN 0 ELSE CHOOSE k \in ps : \A j \in ps : k >= j
\* re.sub(r"[^A-Za-z0-9_.-]+", "_", raw): every run of other characters
\* becomes one underscore, written at the first character of the run
SubUnsafeRuns(raw) ==
    LET sub == [i \in 1..Len(raw) |->
                   IF raw[i] \in SessionIdChars THEN raw[i]
                   ELSE IF i = 1 \/ raw[i - 1] \in SessionIdChars THEN "_"
                   ELSE ""]
    IN SelectSeq(sub, LAMBDA c : c # "")
\* safe.strip("._-")
StripDots(safe) ==
    SubSeq(safe, FirstNotIn(safe, 1, {".", "_", "-"}), LastNotIn(safe, {".", "_", "-"}))

\* a faulty variant of sanitize_session_id_for_filename, which C23 rules
\* out: the characters are not replaced
sanitize_session_id_for_filename_Raw(session_id) ==
    LET safe == Take(StripDots(strip(session_id)), SessionIdLimit) IN
    IF safe = <<>> \/ safe \in {<<".">>, <<".",".">>} THEN NoneT ELSE SomeT(safe)

sanitize_session_id_for_filename(session_id) ==
    LET raw == strip(session_id) IN
    IF raw = <<>> THEN NoneT
    ELSE LET safe == Take(StripDots(SubUnsafeRuns(raw)), SessionIdLimit) IN
         IF safe = <<>> \/ safe \in {<<".">>, <<".",".">>} THEN NoneT ELSE SomeT(safe)

\* Path.home() / ".cc-safety-net" / "logs"
LOGS_DIR == HOME \o <<"/",".","c","c","-","s","a","f","e","t","y","-","n","e","t","/","l","o","g","s">>
\* pathlib's dir / name: an absolute name replaces the directory
PathJoin(dir, name) == IF startswith(name, <<"/">>) THEN name ELSE dir \o <<"/">> \o name

NoAudit == [written |-> FALSE, file |-> <<>>, entry |-> <<>>]
\* the line _write_audit_log appends to log_file (ts, the time of the
\* clock, is left out)
AuditEntry(log_file, command, segment, reason, cwd) ==
    [written |-> TRUE, file |-> log_file,
     entry |-> [command |-> Take(redact_secrets(command), ExcerptLimit),
                segment |-> Take(redact_secrets(segment), ExcerptLimit),
                reason |-> reason, cwd |-> cwd]]

\* what _write_audit_log may leave behind: nothing when the session id is
\* rejected or the directory or the file cannot be written (OSError)
write_audit_log(session_id, command, segment, reason, cwd) ==
    LET safe_session_id == sanitize_session_id_for_filename(session_id) IN
    IF ~safe_session_id.some THEN {NoAudit}
    ELSE {NoAudit,
          AuditEntry(PathJoin(LOGS_DIR, safe_session_id.v \o <<".","j","s","o","n","l">>),
                     command, segment, reason, cwd)}

(***************************************************************************)
(* The hook as a state machine.  One run of the hook handles one request:  *)
(* main reads the request and the environment, _analyze_command walks the  *)
(* segments, and every recursion of _analyze_segment into                  *)
(* _analyze_command is a frame of the call stack.                          *)
(***************************************************************************)
VARIABLES
    request,    \* the JSON document on stdin
    environ,    \* SAFETY_NET_STRICT / _PARANOID* as main reads them
    files,      \* the rules of the user-scope and project-scope config files
    shape,      \* how the command of the request was composed (not read by the hook)
    pc,         \* "main", "analyze" or "done"
    stack,      \* the frames of _analyze_command, outermost first
    decision,   \* what the hook prints: nothing (allow) or a deny
    audit,      \* what the hook has written to the audit log
    log         \* every call of _analyze_segment so far, in order

vars == <<request, environ, files, shape, pc, stack, decision, audit, log>>

NoDecision == [kind |-> "none", seg |-> <<>>, reason |-> <<>>]
AllowDecision == [kind |-> "allow", seg |-> <<>>, reason |-> <<>>]
DenyDecision(segment, reason) == [kind |-> "deny", seg |-> segment, reason |-> reason]

REASON_INVALID_INPUT == <<"I","n","v","a","l","i","d"," ","h","o","o","k"," ","i","n","p","u","t",".">>
REASON_INVALID_STRUCTURE == <<"I","n","v","a","l","i","d"," ","h","o","o","k"," ","i","n","p","u","t"," ","s","t","r","u","c","t","u","r","e",".">>

\* a frame of _analyze_command(command, depth, cwd, config): the segments
\* of the command, the index of the segment at hand, effective_cwd and
\* config; while the segment at hand waits for a recursion, calls are the
\* command strings still to analyze (the first one is being analyzed) and
\* post is the result of the segment if all of them allow
Frame(command, depth, cwd, config) ==
    [segs |-> split_shell_commands(command), idx |-> 1, depth |-> depth,
     cwd |-> cwd, config |-> config, waiting |-> FALSE, calls |-> <<>>, post |-> Allow]

Top == stack[Len(stack)]
\* the context of the segment at hand of frame f
Ctx(f) == [depth |-> f.depth, cwd |-> f.cwd, strict |-> environ.strict,
           paranoid_rm |-> environ.paranoid_rm,
           paranoid_interpreters |-> environ.paranoid_interpreters,
           config |-> f.config, files |-> files]
\* the context main gives to _analyze_command
MainCwd == strip(request.cwd)
MainCtx == [depth |-> 0, cwd |-> MainCwd, strict |-> environ.strict,
            paranoid_rm |-> environ.paranoid_rm,
            paranoid_interpreters |-> environ.paranoid_interpreters,
            config |-> load_config(MainCwd, files), files |-> files]

AtSegment == pc = "analyze" /\ stack # <<>> /\ ~Top.waiting /\ Top.idx <= Len(Top.segs)
Segment == Top.segs[Top.idx]
Plan == SegPlan(Segment, Ctx(Top))
Logged == Append(log, [depth |-> Top.depth, seg |-> Segment, cwd |-> Top.cwd,
                       config |-> Top.config])

\* a deny is returned unchanged by every caller up to main, which prints it
Denied(result) ==
    /\ decision' = DenyDecision(result.seg, result.reason)
    /\ audit' \in IF request.session_id.some /\ request.session_id.v # <<>>
                  THEN write_audit_log(request.session_id.v, request.command,
                                       result.seg, result.reason, MainCwd)
                  ELSE {NoAudit}
    /\ stack' = <<>>
    /\ pc' = "done"

\* the segment at hand of the frame on top of frames allows: the loop of
\* _analyze_command downgrades the cwd if the segment changes it, and goes
\* on to the next segment
Advanced(f, after) ==
    [f EXCEPT !.idx = f.idx + 1, !.cwd = after.cwd, !.config = after.config,
              !.waiting = FALSE, !.calls = <<>>, !.post = Allow]

AdvanceFrame(f) == Advanced(f, AfterSegment(f.segs[f.idx], Ctx(f)))

Advance(frames) == [frames EXCEPT ![Len(frames)] = AdvanceFrame(frames[Len(frames)])]

\* main up to the call of _analyze_command
Main ==
    /\ pc = "main"
    /\ IF ~request.json_ok
       THEN /\ decision' = IF environ.strict THEN DenyDecision(<<>>, REASON_INVALID_INPUT)
                           ELSE AllowDecision
            /\ pc' = "done" /\ stack' = stack
       ELSE IF ~request.is_dict
       THEN /\ decision' = IF environ.strict THEN DenyDecision(<<>>, REASON_INVALID_STRUCTURE)
                           ELSE AllowDecision
            /\ pc' = "done" /\ stack' = stack
       ELSE IF request.tool_name # <<"B","a","s","h">>
       THEN decision' = AllowDecision /\ pc' = "done" /\ stack' = stack
       ELSE IF ~request.tool_input_is_dict
       THEN /\ decision' = IF environ.strict THEN DenyDecision(<<>>, REASON_INVALID_STRUCTURE)
                           ELSE AllowDecision
            /\ pc' = "done" /\ stack' = stack
       ELSE IF ~request.command_is_str \/ strip(request.command) = <<>>
       THEN decision' = AllowDecision /\ pc' = "done" /\ stack' = stack
       ELSE /\ stack' = <<Frame(request.command, 0, MainCwd, load_config(MainCwd, files))>>
            /\ pc' = "analyze"
            /\ decision' = decision
    /\ UNCHANGED <<request, environ, files, shape, audit, log>>

\* a faulty variant of AnalyzeSegmentPlan, which C2 rules out: the loop goes
\* on after a segment that denies
AnalyzeSegmentPlan_Ignore(plan) ==
    /\ plan.calls = <<>>
    /\ log' = Logged
    /\ stack' = Advance(stack) /\ UNCHANGED <<pc, decision, audit>>
    /\ UNCHANGED <<request, environ, files, shape>>

\* _analyze_segment on a segment that needs no recursion; plan is the plan
\* of the segment at hand
AnalyzeSegmentPlan(plan) ==
    /\ plan.calls = <<>>
    /\ log' = Logged
    /\ IF plan.post.deny THEN Denied(plan.post)
       ELSE stack' = Advance(stack) /\ UNCHANGED <<pc, decision, audit>>
    /\ UNCHANGED <<request, environ, files, shape>>

AnalyzeSegment == AtSegment /\ AnalyzeSegmentPlan(Plan)

\* _analyze_segment on a segment that needs a recursion at the depth limit
RecursionLimit ==
    /\ AtSegment
    /\ Top.depth >= MAX_RECURSION_DEPTH
    /\ Plan.calls # <<>>
    /\ log' = Logged
    /\ Denied(Deny(Segment, REASON_RECURSION_LIMIT))
    /\ UNCHANGED <<request, environ, files, shape>>

\* a faulty variant of RecursionPlan, which C28 rules out: the nested call
\* gets the depth of its caller
RecursionPlan_SameDepth(plan) ==
    /\ plan.calls # <<>>
    /\ log' = Logged
    /\ stack' = Append([stack EXCEPT ![Len(stack)] =
                           [Top EXCEPT !.waiting = TRUE, !.calls = plan.calls,
                                       !.post = plan.post]],
                       Frame(plan.calls[1], Top.depth, Top.cwd, Top.config))
    /\ UNCHANGED <<request, environ, files, shape, pc, decision, audit>>

\* _analyze_segment calls _analyze_command on the first command string
RecursionPlan(plan) ==
    /\ plan.calls # <<>>
    /\ log' = Logged
    /\ stack' = Append([stack EXCEPT ![Len(stack)] =
                           [Top EXCEPT !.waiting = TRUE, !.calls = plan.calls,
                                       !.post = plan.post]],
                       Frame(plan.calls[1], Top.depth + 1, Top.cwd, Top.config))
    /\ UNCHANGED <<request, environ, files, shape, pc, decision, audit>>

\* a faulty variant of Recursion, which C1 rules out: the depth is not tested
Recursion_NoLimit == AtSegment /\ RecursionPlan(Plan)

Recursion == AtSegment /\ Top.depth < MAX_RECURSION_DEPTH /\ RecursionPlan(Plan)

\* a nested _analyze_command has run out of segments and returns None: the
\* calling _analyze_segment goes on with its next command string, or ends
\* with its own result
ReturnTo(callers, caller, calls) ==
    IF calls # <<>>
    THEN /\ stack' = Append([callers EXCEPT ![Len(callers)] = [caller EXCEPT !.calls = calls]],
                            Frame(calls[1], caller.depth + 1, caller.cwd, caller.config))
         /\ UNCHANGED <<pc, decision, audit>>
    ELSE IF caller.post.deny THEN Denied(caller.post)
    ELSE stack' = Advance(callers) /\ UNCHANGED <<pc, decision, audit>>

Return ==
    /\ pc = "analyze" /\ Len(stack) > 1
    /\ ~Top.waiting /\ Top.idx > Len(Top.segs)
    /\ ReturnTo(SubSeq(stack, 1, Len(stack) - 1), stack[Len(stack) - 1],
                Tail(stack[Len(stack) - 1].calls))
    /\ UNCHANGED <<request, environ, files, shape, log>>

\* the outermost _analyze_command returns None: main prints nothing
MainAllow ==
    /\ pc = "analyze" /\ Len(stack) = 1
    /\ ~Top.waiting /\ Top.idx > Len(Top.segs)
    /\ decision' = AllowDecision
    /\ stack' = <<>>
    /\ pc' = "done"
    /\ UNCHANGED <<request, environ, files, shape, audit, log>>


(***************************************************************************)
(* The requests the hook is run on.                                        *)
(***************************************************************************)
\* the nesting depth of interpreter wrappers around a command
MaxNest == 6
\* the number of segments of a composed command
MaxSegs == 2
\* the number of wrapper units in front of a command
MaxWrap == 2
\* the number of targets of an rm command
MaxTargets == 2
\* the length of the texts the splitter is given over its whole alphabet
MaxSplitLen == 3
\* the most arguments of a git push, the most items of a git checkout
MaxPushArgs == 3
MaxCheckoutItems == 3
\* the most items of the arguments of a find
MaxFindItems == 3
\* the most options of an xargs in front of rm
MaxXargsOptions == 2
\* the most arguments behind the ::: of a parallel
MaxParallelArgs == 2

\* quoting a command string as one shell word: a backslash before every
\* character the splitter or the lexer treats specially
EscSpecial == {" ", "\t", "\n", "\\", "'", "\"", ";", "|", "&"}
RECURSIVE Esc(_)
Esc(t) ==
    IF Len(t) = 0 THEN <<>>
    ELSE IF Len(t) = 1 THEN (IF t[1] \in EscSpecial THEN <<"\\", t[1]>> ELSE t)
    ELSE Esc(SubSeq(t, 1, Len(t) \div 2)) \o Esc(SubSeq(t, Len(t) \div 2 + 1, Len(t)))

\* the ways a command string is handed to a nested analysis
NestKinds == {"shell", "xargs", "parallel", "colons"}
NestOne(kind, code) ==
    CASE kind = "shell" -> <<"s","h"," ","-","c"," ">> \o Esc(code)
      [] kind = "xargs" -> <<"x","a","r","g","s"," ","s","h"," ","-","c"," ">> \o Esc(code)
      [] kind = "parallel" -> <<"p","a","r","a","l","l","e","l"," ","b","a","s","h"," ","-","c"," ">> \o Esc(code)
      [] kind = "colons" -> <<"p","a","r","a","l","l","e","l"," ",":",":",":"," ">> \o Esc(code)

\* code behind n wrappers: the outermost of kind outer, the others inner
RECURSIVE Nested(_, _, _, _)
Nested(n, outer, inner, code) ==
    IF n = 0 THEN code
    ELSE NestOne(outer, Nested(n - 1, inner, inner, code))

RECURSIVE Join(_, _)
Join(parts, sep) ==
    IF parts = <<>> THEN <<>>
    ELSE IF Len(parts) = 1 THEN parts[1]
    ELSE parts[1] \o sep \o Join(Tail(parts), sep)

RECURSIVE Concat(_)
Concat(units) == IF units = <<>> THEN <<>> ELSE Head(units) \o Concat(Tail(units))

\* all sequences over S of length lo..hi
SeqsOf(S, lo, hi) == UNION {[1..n -> S] : n \in lo..hi}

\* shape = [wrap: wrapper units, parts: segments, sep: separator,
\*          nest, outer, inner: the wrappers around the whole command,
\*          kind, args: the family of the command and what it was built from]
CommandOf(sh) ==
    Nested(sh.nest, sh.outer, sh.inner, Concat(sh.wrap) \o Join(sh.parts, sh.sep))
Plain(parts, sep) ==
    [wrap |-> <<>>, parts |-> parts, sep |-> sep, nest |-> 0, outer |-> "shell",
     inner |-> "shell", kind |-> "plain", args |-> <<>>]
\* one command of a family
Shaped(kind, args, command) ==
    [Plain(<<command>>, <<>>) EXCEPT !.kind = kind, !.args = args]

\* custom rules
RuleGitAdd ==
    [name |-> <<"n","o","-","a","d","d","-","a","l","l">>, command |-> <<"g","i","t">>, subcommand |-> SomeT(<<"a","d","d">>),
     block_args |-> <<<<"-","A">>, <<"-","-","a","l","l">>, <<".">>>>, reason |-> <<"S","t","a","g","e"," ","f","i","l","e","s"," ","o","n","e"," ","b","y"," ","o","n","e",".">>]
RuleGitAddUser ==
    [name |-> <<"N","o","-","A","d","d","-","A","l","l">>, command |-> <<"g","i","t">>, subcommand |-> SomeT(<<"a","d","d">>),
     block_args |-> <<<<"-","A">>>>, reason |-> <<"U","s","e","r"," ","s","c","o","p","e",":"," ","n","o"," ","a","d","d"," ","-","A",".">>]
RuleEcho ==
    [name |-> <<"q","u","i","e","t">>, command |-> <<"e","c","h","o">>, subcommand |-> NoneT,
     block_args |-> <<<<"-","n">>, <<"-","-">>>>, reason |-> <<"N","o"," ","e","c","h","o"," ","-","n",".">>]
RuleRm ==
    [name |-> <<"n","o","-","r","m","-","r">>, command |-> <<"r","m">>, subcommand |-> NoneT,
     block_args |-> <<<<"-","r">>>>, reason |-> <<"N","o"," ","r","e","c","u","r","s","i","v","e"," ","r","m",".">>]
RuleSudo ==
    [name |-> <<"n","o","-","s","u","d","o","-","u">>, command |-> <<"s","u","d","o">>, subcommand |-> NoneT,
     block_args |-> <<<<"-","u">>>>, reason |-> <<"N","o"," ","s","u","d","o"," ","-","u",".">>]
RuleXargs ==
    [name |-> <<"n","o","-","x","a","r","g","s","-","0">>, command |-> <<"x","a","r","g","s">>, subcommand |-> NoneT,
     block_args |-> <<<<"-","0">>>>, reason |-> <<"N","o"," ","x","a","r","g","s"," ","-","0",".">>]

NoFiles == [user |-> <<>>, project |-> <<>>]
ProjectFiles == [user |-> <<RuleEcho>>, project |-> <<RuleGitAdd, RuleRm, RuleXargs>>]
BothFiles == [user |-> <<RuleGitAddUser, RuleSudo>>, project |-> <<RuleGitAdd>>]

CWD_PROJECT == <<"/","w","/","p">>
Modes(strict, paranoid) ==
    [strict |-> strict, paranoid_rm |-> paranoid, paranoid_interpreters |-> paranoid]
Setup(strict, paranoid, cwd, fs) ==
    [environ |-> Modes(strict, paranoid), cwd |-> cwd, files |-> fs]
SetupDefault == Setup(FALSE, FALSE, CWD_PROJECT, ProjectFiles)
SetupBoth == Setup(FALSE, FALSE, CWD_PROJECT, BothFiles)
SetupStrict == Setup(TRUE, FALSE, CWD_PROJECT, ProjectFiles)
SetupNoCwd == Setup(FALSE, FALSE, <<>>, BothFiles)
SetupParanoid == Setup(FALSE, TRUE, CWD_PROJECT, NoFiles)
SetupHome == Setup(FALSE, FALSE, HOME, NoFiles)
SetupPlain == Setup(FALSE, FALSE, CWD_PROJECT, NoFiles)
Setups == {SetupDefault, SetupBoth, SetupStrict, SetupNoCwd, SetupParanoid, SetupHome}

BashRequest(command, cwd) ==
    [json_ok |-> TRUE, is_dict |-> TRUE, tool_name |-> <<"B","a","s","h">>, tool_input_is_dict |-> TRUE,
     command_is_str |-> TRUE, command |-> command, cwd |-> cwd, session_id |-> NoneT]
Input(setup, sh) ==
    [request |-> BashRequest(CommandOf(sh), setup.cwd), environ |-> setup.environ,
     files |-> setup.files, shape |-> sh]


\* wrapper prefixes: sudo with options, env with options, command with
\* options, and assignments
WrapUnits == {<<"s","u","d","o"," ">>, <<"s","u","d","o"," ","-","u"," ","r","o","o","t"," ","-","-"," ">>, <<"e","n","v"," ","-","i"," ">>, <<"c","o","m","m","a","n","d"," ","-","p"," ">>, <<"A","=","1"," ">>,
              <<"T","M","P","D","I","R","=","/","x"," ">>}
WrappedCommands ==
    {<<"g","i","t"," ","r","e","s","e","t"," ","-","-","h","a","r","d">>, <<"g","i","t"," ","a","d","d"," ","-","A">>, <<"r","m"," ","-","r","f"," ","b","u","i","l","d">>, <<"r","m"," ","-","r","f"," ","$","T","M","P","D","I","R","/","a">>,
     <<"f","i","n","d"," ","."," ","-","d","e","l","e","t","e">>, <<"s","h"," ","-","c"," ","'","f","i","n","d"," ","."," ","-","d","e","l","e","t","e","'">>, <<"x","a","r","g","s"," ","-","0"," ","e","c","h","o">>, <<"e","c","h","o"," ","o","k">>}
WrappedInputs ==
    {Input(setup, [Plain(<<c>>, <<>>) EXCEPT !.wrap = w]) :
        setup \in {SetupDefault, SetupNoCwd},
        w \in SeqsOf(WrapUnits, 0, MaxWrap), c \in WrappedCommands}

\* compositions of segments with one of the separators of the splitter
Separators == {<<" ",";"," ">>, <<" ","&","&"," ">>, <<" ","|","|"," ">>, <<" ","|"," ">>, <<" ","|","&"," ">>, <<" ","&"," ">>, <<" ", "\n", " ">>}
ComposedSegments ==
    {<<"e","c","h","o"," ","o","k">>, <<"c","d"," ",".",".">>, <<"g","i","t"," ","a","d","d"," ","-","A">>, <<"r","m"," ","-","r","f"," ","b","u","i","l","d">>, <<"g","i","t"," ","r","e","s","e","t"," ","-","-","h","a","r","d">>,
     <<"e","c","h","o"," ","x","\\">>}
ComposedInputs ==
    {Input(setup, Plain(parts, sep)) :
        setup \in {SetupDefault, SetupBoth, SetupStrict},
        parts \in SeqsOf(ComposedSegments, 1, MaxSegs), sep \in Separators}

\* a segment that changes the directory, in the forms _segment_changes_cwd
\* knows, before rm -rf of a relative path
CdForms == {<<"c","d"," ",".",".">>, <<"p","u","s","h","d"," ","/","x">>, <<"p","o","p","d">>, <<"s","u","d","o"," ","c","d"," ",".",".">>, <<"e","n","v"," ","A","=","1"," ","c","d"," ",".",".">>, <<"{"," ","c","d"," ",".",".">>,
            <<"("," ","c","d"," ",".",".">>, <<"$","("," ","c","d"," ",".",".">>, <<"b","u","i","l","t","i","n"," ","c","d"," ",".",".">>, <<"c","o","m","m","a","n","d"," ","c","d"," ",".",".">>,
            <<"c","o","m","m","a","n","d"," ","b","u","i","l","t","i","n"," ","c","d"," ",".",".">>, <<"c","d"," ","'","x">>, <<"c","d","x"," ",".",".">>, <<"e","c","h","o"," ","c","d">>}
CdInputs ==
    {Input(setup, Plain(parts, <<" ",";"," ">>)) :
        setup \in {SetupDefault, SetupNoCwd, SetupHome},
        parts \in UNION {{<<c, <<"r","m"," ","-","r","f"," ","b","u","i","l","d">>>>,
                          <<c, <<"e","c","h","o"," ","o","k">>, <<"r","m"," ","-","r","f"," ","b","u","i","l","d">>>>,
                          <<<<"r","m"," ","-","r","f"," ","b","u","i","l","d">>, c, <<"s","h"," ","-","c"," ","'","r","m"," ","-","r","f"," ","b","u","i","l","d","'">>>>} : c \in CdForms}}

\* commands behind up to MaxNest interpreter wrappers
NestedCommands == {<<"t","r","u","e">>, <<"r","m"," ","-","r","f"," ","/">>, <<"g","i","t"," ","a","d","d"," ","-","A">>, <<"c","d"," ",".","."," ",";"," ","r","m"," ","-","r","f"," ","b","u","i","l","d">>}
NestedInputs ==
    {Input(setup, [Plain(<<c>>, <<>>) EXCEPT !.nest = n, !.outer = outer, !.inner = inner]) :
        setup \in {SetupDefault, SetupBoth},
        n \in 1..MaxNest, outer \in NestKinds, inner \in NestKinds, c \in NestedCommands}

\* single segments of every kind the analyzer dispatches on
SingleSegments ==
    {<<"g","i","t"," ","a","d","d"," ",".">>, <<"g","i","t"," ","-","-"," ","a","d","d"," ","-","A">>, <<"g","i","t"," ","-","n"," ","a","d","d"," ","-","x">>, <<"g","i","t"," ","a","d","d"," ","-","A","p">>, <<"/","u","s","r","/","b","i","n","/","g","i","t"," ","a","d","d"," ","-","-","a","l","l">>,
     <<"G","i","t"," ","a","d","d"," ","-","A">>, <<"g","i","t"," ","c","o","m","m","i","t"," ","-","A">>, <<"g","i","t"," ","a","d","d">>, <<"e","c","h","o"," ","-","n"," ","h","i">>, <<"e","c","h","o"," ","-","-"," ","x">>, <<"e","c","h","o"," ","-","e","n"," ","h","i">>,
     <<"e","c","h","o"," ","h","i"," ","-","-"," ","-","n">>, <<"r","m"," ","-","r"," ","x">>, <<"r","m"," ","-","r","f"," ","/">>, <<"r","m"," ","-","r","f"," ","/","t","m","p","/","x">>, <<"x","a","r","g","s"," ","-","0">>, <<"x","a","r","g","s"," ","-","0"," ","e","c","h","o">>,
     <<"x","a","r","g","s"," ","-","0"," ","r","m"," ","-","r","f">>, <<"x","a","r","g","s"," ","-","I","{","}"," ","s","h"," ","-","c"," ","{","}">>, <<"x","a","r","g","s"," ","s","h"," ","-","c">>, <<"x","a","r","g","s"," ","g","i","t"," ","a","d","d"," ","-","A">>,
     <<"p","a","r","a","l","l","e","l"," ","e","c","h","o"," ",":",":",":"," ","a">>, <<"p","a","r","a","l","l","e","l"," ","r","m"," ","-","r","f"," ","{","}"," ",":",":",":"," ","b","u","i","l","d"," ","/">>, <<"p","a","r","a","l","l","e","l"," ","s","h"," ","-","c"," ","'","{","}","'">>,
     <<"p","a","r","a","l","l","e","l"," ","s","h"," ","-","c"," ","'","g","i","t"," ","a","d","d"," ","{","}","'"," ",":",":",":"," ","-","A"," ",".">>, <<"p","a","r","a","l","l","e","l"," ",":",":",":"," ","'","g","i","t"," ","a","d","d"," ","-","A","'"," ","'","r","m"," ","-","r","f"," ","/","'">>,
     <<"b","u","s","y","b","o","x"," ","r","m"," ","-","r","f"," ","b","u","i","l","d">>, <<"b","u","s","y","b","o","x"," ","f","i","n","d"," ","."," ","-","d","e","l","e","t","e">>, <<"f","i","n","d"," ","."," ","-","n","a","m","e"," ","x"," ","-","e","x","e","c"," ","r","m"," ","-","r","f"," ","{","}"," ","+">>,
     <<"g","i","t"," ","p","u","s","h"," ","-","-","f","o","r","c","e">>, <<"g","i","t"," ","c","h","e","c","k","o","u","t"," ","-","-"," ","x">>, <<"p","y","t","h","o","n"," ","-","c"," ","'","p","r","i","n","t","(","1",")","'">>,
     <<"p","y","t","h","o","n"," ","-","c"," ","'","g","i","t"," ","r","e","s","e","t"," ","-","-","h","a","r","d","'">>, <<"s","h"," ","-","c">>, <<"b","a","s","h"," ","-","l","c"," ","'","g","i","t"," ","a","d","d"," ","-","A","'">>, <<"l","s"," ","r","m"," ","-","r","f"," ","b","u","i","l","d">>,
     <<"t","a","r"," ","c"," ","g","i","t"," ","r","e","s","e","t"," ","-","-","h","a","r","d">>, <<"e","c","h","o"," ","'","g","i","t"," ","r","e","s","e","t"," ","-","-","h","a","r","d">>, <<"r","m"," ","-","r","f"," ","'","x">>, <<"f","i","n","d"," ","."," ","-","d","e","l","e","t","e"," ","'","x">>,
     <<"e","c","h","o"," ","'","x">>, <<"e","c","h","o"," ","'","x"," ",";"," ","r","m"," ","-","r","f"," ","/">>, <<"s","u","d","o"," ","-","u"," ","r","o","o","t"," ","g","i","t"," ","a","d","d"," ","-","A">>, <<"s","u","d","o">>, <<" "," "," ">>}
SingleInputs == {Input(setup, Plain(<<c>>, <<>>)) : setup \in Setups, c \in SingleSegments}

\* rm with one option word and up to MaxTargets targets, -- before the
\* target at position dd (0: no --)
RmTargetPool == {<<"/">>, <<"~">>, <<"~","b","o","b","/","x">>, <<"b","u","i","l","d">>, <<"/","t","m","p","/","x">>, <<".",".","/","x">>, <<"$","T","M","P","D","I","R","/","a">>}
RmOptionPool == {<<"-","r","f">>, <<"-","r">>}
RECURSIVE Words(_, _, _)
\* the words from position k on, each after a blank, -- before position dd
Words(words, k, dd) ==
    IF k > Len(words) THEN <<>>
    ELSE (IF k = dd THEN <<" ","-","-">> ELSE <<>>) \o <<" ">> \o words[k] \o Words(words, k + 1, dd)
RmCommand(a) == <<"r","m"," ">> \o a.opts \o Words(a.targets, 1, a.dd)
RmArgs ==
    {[opts |-> o, targets |-> ts, dd |-> dd] :
        o \in RmOptionPool,
        <<ts, dd>> \in UNION {{ts} \X (0..Len(ts)) : ts \in SeqsOf(RmTargetPool, 1, MaxTargets)}}
RmInputs ==
    {Input(setup, Shaped("rm", a, RmCommand(a))) :
        setup \in {SetupPlain, SetupNoCwd, SetupParanoid}, a \in RmArgs}

\* rm -rf of a child of $TMPDIR, the only target, reached directly, behind
\* wrappers, through a shell, through xargs and through parallel, in a
\* segment that does or does not assign TMPDIR
TmpdirPrefixPool == {<<>>, <<"T","M","P","D","I","R","=","/","x"," ">>, <<"e","n","v"," ","T","M","P","D","I","R","=","/","x"," ">>}
TmpdirCarrierPool ==
    {<<"r","m"," ","-","r","f"," ","$","T","M","P","D","I","R","/","a">>, <<"s","u","d","o"," ","r","m"," ","-","r","f"," ","$","T","M","P","D","I","R","/","a">>, <<"b","u","s","y","b","o","x"," ","r","m"," ","-","r","f"," ","$","T","M","P","D","I","R","/","a">>,
     <<"s","h"," ","-","c"," ","'","r","m"," ","-","r","f"," ","$","T","M","P","D","I","R","/","a","'">>, <<"x","a","r","g","s"," ","s","h"," ","-","c"," ","'","r","m"," ","-","r","f"," ","$","T","M","P","D","I","R","/","a","'">>,
     <<"p","a","r","a","l","l","e","l"," ","r","m"," ","-","r","f"," ","{","}"," ",":",":",":"," ","$","T","M","P","D","I","R","/","a">>, <<"p","a","r","a","l","l","e","l"," ","s","h"," ","-","c"," ","'","r","m"," ","-","r","f"," ","{","}","'"," ",":",":",":"," ","$","T","M","P","D","I","R","/","a">>}
TmpdirInputs ==
    {Input(SetupPlain, Shaped("tmpdir", [prefix |-> p, carrier |-> c], p \o c)) :
        p \in TmpdirPrefixPool, c \in TmpdirCarrierPool}

\* git push with up to MaxPushArgs arguments
PushArgPool ==
    {<<"-","-","f","o","r","c","e">>, <<"-","f">>, <<"-","u","f">>, <<"-","-","f","o","r","c","e","-","w","i","t","h","-","l","e","a","s","e">>, <<"-","-","f","o","r","c","e","-","w","i","t","h","-","l","e","a","s","e","=","m","a","i","n">>, <<"o","r","i","g","i","n">>,
     <<"-","-">>}
PushInputs ==
    {Input(SetupPlain, Shaped("push", a, <<"g","i","t"," ","p","u","s","h">> \o Words(a, 1, 0))) :
        a \in SeqsOf(PushArgPool, 0, MaxPushArgs)}

\* git checkout with up to MaxCheckoutItems items, an item being an option
\* with its value, a positional argument, or --
CheckoutPositionalPool == {<<<<"m","a","i","n">>>>, <<<<"f","i","l","e">>>>}
CheckoutNewBranchPool == {<<<<"-","b">>, <<"n","e","w">>>>, <<<<"-","B">>, <<"n","e","w">>>>, <<<<"-","-","o","r","p","h","a","n">>, <<"n","e","w">>>>}
CheckoutValuePool ==
    {<<<<"-","U","3">>>>, <<<<"-","-","t","r","a","c","k">>, <<"d","i","r","e","c","t">>>>, <<<<"-","-","r","e","c","u","r","s","e","-","s","u","b","m","o","d","u","l","e","s">>, <<"c","h","e","c","k","o","u","t">>>>,
     <<<<"-","-","f","o","o">>, <<"v","a","l">>>>}
CheckoutItemPool ==
    CheckoutPositionalPool \cup CheckoutNewBranchPool \cup CheckoutValuePool
        \cup {<<<<"-","-">>>>, <<<<"-","-","p","a","t","h","s","p","e","c","-","f","r","o","m","-","f","i","l","e","=","x">>>>}
RECURSIVE Flatten(_)
Flatten(items) == IF items = <<>> THEN <<>> ELSE Head(items) \o Flatten(Tail(items))
CheckoutInputs ==
    {Input(SetupPlain, Shaped("checkout", a, <<"g","i","t"," ","c","h","e","c","k","o","u","t">> \o Words(Flatten(a), 1, 0))) :
        a \in SeqsOf(CheckoutItemPool, 0, MaxCheckoutItems)}

\* find . with up to MaxFindItems items, an item being a primary, a token or
\* the begin of an -exec like action; a terminator is a token of its own, so
\* an action may end at a later item or run to the end
FindItemPool ==
    {<<<<"-","d","e","l","e","t","e">>>>, <<<<"-","n","a","m","e">>>>, <<<<";">>>>, <<<<"+">>>>, <<<<"-","f">>>>, <<<<"-","-">>>>,
     <<<<"-","e","x","e","c">>, <<"r","m">>, <<"-","r","f">>>>, <<<<"-","e","x","e","c","d","i","r">>, <<"r","m">>, <<"-","r">>>>,
     <<<<"-","o","k">>, <<"b","u","s","y","b","o","x">>, <<"r","m">>, <<"-","f","r">>>>, <<<<"-","o","k","d","i","r">>, <<"s","u","d","o">>, <<"r","m">>, <<"-","r","f">>>>}
RECURSIVE QuotedWords(_)
\* every word after a blank and quoted as a shell word
QuotedWords(words) ==
    IF words = <<>> THEN <<>> ELSE <<" ">> \o Esc(Head(words)) \o QuotedWords(Tail(words))
FindInputs ==
    {Input(SetupPlain, Shaped("find", a, <<"f","i","n","d"," ",".">> \o QuotedWords(Flatten(a)))) :
        a \in SeqsOf(FindItemPool, 0, MaxFindItems)}

\* xargs with up to MaxXargsOptions options, each with its value if it takes
\* one, in front of rm -rf or busybox rm -rf
XargsOptionPool ==
    {<<<<"-","0">>>>, <<<<"-","i">>>>, <<<<"-","l">>>>, <<<<"-","n">>, <<"1">>>>, <<<<"-","n","1">>>>, <<<<"-","I">>, <<"X">>>>,
     <<<<"-","-","m","a","x","-","a","r","g","s","=","2">>>>, <<<<"-","-","m","a","x","-","p","r","o","c","s">>, <<"4">>>>}
XargsRmPool == {<<<<"r","m">>, <<"-","r","f">>, <<"b","u","i","l","d">>>>, <<<<"b","u","s","y","b","o","x">>, <<"r","m">>, <<"-","r","f">>, <<"b","u","i","l","d">>>>}
XargsInputs ==
    {Input(setup, Shaped("xargs", [options |-> o, child |-> c],
                         <<"x","a","r","g","s">> \o Words(Flatten(o) \o c, 1, 0))) :
        setup \in {SetupPlain, SetupNoCwd},
        o \in SeqsOf(XargsOptionPool, 0, MaxXargsOptions), c \in XargsRmPool}

\* xargs with an option that declares a replacement token, between other
\* options, in front of a shell whose code is the token or an rm -rf of a
\* path with the token
XargsReplacePool ==
    {[option |-> <<<<"-","I">>, <<"X">>>>, token |-> <<"X">>], [option |-> <<<<"-","I","X">>>>, token |-> <<"X">>],
     [option |-> <<<<"-","i">>>>, token |-> <<"{","}">>], [option |-> <<<<"-","i","X">>>>, token |-> <<"X">>],
     [option |-> <<<<"-","J">>, <<"X">>>>, token |-> <<"X">>], [option |-> <<<<"-","J","X">>>>, token |-> <<"X">>],
     [option |-> <<<<"-","-","r","e","p","l","a","c","e">>>>, token |-> <<"{","}">>],
     [option |-> <<<<"-","-","r","e","p","l","a","c","e","=","X">>>>, token |-> <<"X">>],
     [option |-> <<<<"-","-","r","e","p","l","a","c","e","-","s","t","r">>>>, token |-> <<"{","}">>]}
XargsOtherPool == {<<>>, <<<<"-","0">>>>, <<<<"-","n">>, <<"1">>>>}
XargsCodePool == {<<>>, <<"r","m"," ","-","r","f"," ","/","t","m","p","/">>}
XargsReplaceInputs ==
    {Input(setup,
           Shaped("xargs_replace", [before |-> b, replace |-> r, after |-> a, code |-> c],
                  <<"x","a","r","g","s">> \o QuotedWords(b \o r.option \o a \o <<<<"s","h">>, <<"-","c">>, c \o r.token>>))) :
        setup \in {SetupPlain, SetupNoCwd}, b \in XargsOtherPool, r \in XargsReplacePool,
        a \in XargsOtherPool, c \in XargsCodePool}

\* parallel with an rm template, also through busybox, without ::: or with
\* ::: and up to MaxParallelArgs arguments.  A word of a template is a
\* text, with {} behind it if hole is set
Word(pre, hole) == [pre |-> pre, hole |-> hole]
ParallelTemplatePool ==
    {<<Word(<<"-","r","f">>, FALSE), Word(<<>>, TRUE)>>, <<Word(<<"-","r","f">>, FALSE), Word(<<"/">>, FALSE)>>,
     <<Word(<<"-","r","f">>, FALSE), Word(<<"/","t","m","p","/">>, TRUE)>>, <<Word(<<"-","r">>, FALSE), Word(<<>>, TRUE)>>,
     <<Word(<<"-","r","f">>, FALSE)>>}
ParallelArgPool == {<<"/">>, <<"b","u","i","l","d">>, <<"/","t","m","p","/","x">>, <<".",".","/","x">>}
\* the words of a template with arg in the place of {}
Filled(template, arg) ==
    [k \in 1..Len(template) |->
        template[k].pre \o (IF template[k].hole THEN arg ELSE <<>>)]
ParallelRmArgs ==
    {[busybox |-> b, template |-> tp, explicit |-> e, args |-> a] :
        b \in BOOLEAN, tp \in ParallelTemplatePool,
        <<e, a>> \in {<<FALSE, <<>> >>}
                        \cup ({TRUE} \X SeqsOf(ParallelArgPool, 0, MaxParallelArgs))}
ParallelRmCommand(a) ==
    <<"p","a","r","a","l","l","e","l">> \o (IF a.busybox THEN <<" ","b","u","s","y","b","o","x">> ELSE <<>>) \o <<" ","r","m">>
        \o Words(Filled(a.template, <<"{","}">>), 1, 0)
        \o (IF a.explicit THEN <<" ",":",":",":">> ELSE <<>>) \o Words(a.args, 1, 0)
ParallelRmInputs ==
    {Input(setup, Shaped("parallel_rm", a, ParallelRmCommand(a))) :
        setup \in {SetupPlain, SetupNoCwd}, a \in ParallelRmArgs}

\* denied commands that carry a password, a credential, URL credentials or
\* a GitHub token: in an argument, in another segment, in the name of the
\* shell that xargs or parallel runs, and behind the limit of an excerpt
RECURSIVE Repeated(_, _)
Repeated(t, n) == IF n = 0 THEN <<>> ELSE t \o Repeated(t, n - 1)
GITHUB_TOKEN == <<"g","h","p","_">> \o Repeated(<<"A","1","b","2">>, 6)
SecretCommandPool ==
    {<<"P","A","S","S","W","O","R","D","=","h","u","n","t","e","r","2"," ","r","m"," ","-","r","f"," ","/">>,
     <<"g","i","t"," ","p","u","s","h"," ","-","-","f","o","r","c","e"," ","h","t","t","p","s",":","/","/","b","o","b",":","h","u","n","t","e","r","2","@","h","o","s","t","/","r">>,
     <<"c","u","r","l"," ","-","H"," ","'","A","u","t","h","o","r","i","z","a","t","i","o","n",":"," ","B","e","a","r","e","r"," ","h","u","n","t","e","r","2","'"," ","x"," ",";"," ","r","m"," ","-","r","f"," ","/">>,
     <<"r","m"," ","-","r","f"," ","/"," ">> \o GITHUB_TOKEN,
     <<"p","a","r","a","l","l","e","l"," ","h","t","t","p","s",":","/","/","b","o","b",":","h","u","n","t","e","r","2","@","h","o","s","t","/","b","a","s","h"," ","-","c"," ","'","{","}","'">>,
     <<"x","a","r","g","s"," ","-","I","{","}"," ","/","x","/">> \o GITHUB_TOKEN \o <<"/","s","h"," ","-","c"," ","{","}">>,
     <<"r","m"," ","-","r","f"," ","/"," ">> \o Repeated(<<"0","1","2","3","4","5","6","7","8","9","a","b","c","d","e","f">>, 18) \o <<" ","A","P","I","_","K","E","Y","=","h","u","n","t","e","r","2">>}
SecretInputs ==
    {Input(SetupPlain, Shaped("secret", <<>>, c)) : c \in SecretCommandPool}

\* rm -rf of one relative path inside the cwd, with and without strict mode
StrictRmTargetPool == {<<"b","u","i","l","d">>, <<".","/","b","u","i","l","d">>, <<"a","/","b">>}
SetupStrictPlain == Setup(TRUE, FALSE, CWD_PROJECT, NoFiles)
StrictRmArgs ==
    {[opts |-> <<"-","r","f">>, targets |-> <<target>>, dd |-> 0] : target \in StrictRmTargetPool}
StrictRmInputs ==
    {Input(setup, Shaped("rm", a, RmCommand(a))) :
        setup \in {SetupPlain, SetupStrictPlain}, a \in StrictRmArgs}

\* config files: the rules of a scope, valid and invalid ones
RuleQuietUser ==
    [name |-> <<"Q","U","I","E","T">>, command |-> <<"e","c","h","o">>, subcommand |-> NoneT,
     block_args |-> <<<<"-","e">>>>, reason |-> <<"U","s","e","r"," ","s","c","o","p","e",":"," ","n","o"," ","e","c","h","o"," ","-","e",".">>]
ValidScopePool ==
    {<<>>, <<RuleEcho>>, <<RuleGitAdd>>, <<RuleGitAddUser, RuleSudo>>,
     <<RuleGitAdd, RuleRm, RuleXargs>>, <<RuleGitAddUser, RuleQuietUser, RuleSudo>>,
     <<RuleSudo, RuleQuietUser, RuleGitAddUser>>, <<RuleEcho, RuleGitAdd>>}
InvalidScopePool ==
    {<<RuleGitAdd, RuleGitAddUser>>,
     <<RuleEcho, [RuleRm EXCEPT !.name = <<"9","r","m">>]>>,
     <<[RuleGitAdd EXCEPT !.block_args = <<>>], RuleEcho>>,
     <<RuleSudo, [RuleGitAdd EXCEPT !.command = <<"g","i","t"," ","a","d","d">>, !.subcommand = NoneT]>>,
     <<[RuleEcho EXCEPT !.reason = <<>>]>>}
ScopePool == ValidScopePool \cup InvalidScopePool
ConfigCommands == {<<"g","i","t"," ","a","d","d"," ","-","A">>, <<"c","d"," ",".","."," ",";"," ","e","c","h","o"," ","-","n"," ","h","i">>}
ConfigInputs ==
    {Input(Setup(FALSE, FALSE, cwd, [user |-> u, project |-> p]), Plain(<<c>>, <<>>)) :
        cwd \in {CWD_PROJECT, <<>>}, u \in ScopePool, p \in ScopePool, c \in ConfigCommands}

\* session ids of requests that are denied or allowed
SessionIdPool ==
    {<<"a","b","c","-","1","2","3">>, <<" ","a","b"," ","c"," ">>, <<".",".","/",".",".","/","e","t","c","/","p","a","s","s","w","d">>, <<".",".">>, <<".">>, <<".",".",".">>, <<"/">>, <<"a","/","b">>, <<"/","/","x">>,
     <<"/","a","b","s","/","p","a","t","h">>, <<>>, <<" "," "," ">>, <<"_","-",".","_">>, <<"-","r","f">>, <<".","h","i","d","d","e","n">>, <<"x",".",".">>, <<"a",".",".","b">>, <<".",".","\\",".",".","\\","x">>,
     <<"a", "\n", "b">>, <<"a", "\t", "\t", ".", ".">>, <<"<U+00E9>", "t", "<U+00E9>">>,
     Repeated(<<"0","1","2","3","4","5","6","7","8","9","a","b","c","d","e","f">>, 8) \o <<"g","h">>, Repeated(<<"a","/">>, 70), Repeated(<<".","/">>, 70),
     Repeated(<<"0","1","2","3","4","5","6","7","8","9","a","b","c","d","e",".">>, 8) \o <<"/","x">>}
SessionCommands == {<<"r","m"," ","-","r","f"," ","/">>, <<"e","c","h","o"," ","o","k">>, <<"e","c","h","o"," ","'","x"," ",";"," ","r","m"," ","-","r","f"," ","~"," ","A","P","I","_","K","E","Y","=","h","u","n","t","e","r","2">>}
SessionInputs ==
    {[input EXCEPT !.request.session_id = SomeT(id)] :
        input \in {Input(setup, Plain(<<c>>, <<>>)) :
                      setup \in {SetupPlain, SetupNoCwd}, c \in SessionCommands},
        id \in SessionIdPool}

\* a shell with -c CODE, and words after CODE
ShellHeadPool == {<<<<"s","h">>, <<"-","c">>>>, <<<<"b","a","s","h">>, <<"-","c">>>>, <<<<"z","s","h">>, <<"-","c">>>>, <<<<"d","a","s","h">>, <<"-","c">>>>,
                  <<<<"k","s","h">>, <<"-","c">>>>, <<<<"/","b","i","n","/","b","a","s","h">>, <<"-","l","c">>>>}
ShellCodePool ==
    {<<"e","c","h","o"," ","o","k">>, <<"r","m"," ","-","r","f"," ","/">>, <<"r","m"," ","-","r","f"," ","b","u","i","l","d">>, <<"g","i","t"," ","r","e","s","e","t"," ","-","-","h","a","r","d">>, <<"g","i","t"," ","a","d","d"," ","-","A">>,
     <<"c","d"," ",".","."," ",";"," ","r","m"," ","-","r","f"," ","b","u","i","l","d">>, <<"s","h"," ","-","c"," ","'","r","m"," ","-","r","f"," ","/","'">>, <<"s","h"," ","-","c"," ","'","e","c","h","o"," ","o","k","'">>, <<"e","c","h","o"," ","'","x">>}
ShellExtraPool == {<<>>, <<<<"x">>>>, <<<<"r","m">>, <<"-","r","f">>, <<"/">>>>, <<<<"g","i","t">>, <<"r","e","s","e","t">>, <<"-","-","h","a","r","d">>>>}
\* a text as one shell word, in single quotes or, if it has one, in double
\* quotes
Quoted(t) == IF \E i \in 1..Len(t) : t[i] = "'" THEN <<"\"">> \o t \o <<"\"">>
             ELSE <<"'">> \o t \o <<"'">>
RuleSh ==
    [name |-> <<"n","o","-","s","h","-","x">>, command |-> <<"s","h">>, subcommand |-> NoneT,
     block_args |-> <<<<"x">>>>, reason |-> <<"N","o"," ","s","h"," ","w","i","t","h"," ","x",".">>]
ShFiles == [user |-> <<RuleSh>>, project |-> <<RuleGitAdd>>]
ShellArgs ==
    {[head |-> h, code |-> c, extra |-> e] :
        h \in ShellHeadPool, c \in ShellCodePool, e \in ShellExtraPool}
ShellCommand(a) ==
    a.head[1] \o <<" ">> \o a.head[2] \o <<" ">> \o Quoted(a.code) \o Words(a.extra, 1, 0)
ShellInputs ==
    {Input(setup, Shaped("shell", a, ShellCommand(a))) :
        setup \in {SetupPlain, Setup(FALSE, FALSE, CWD_PROJECT, ShFiles)}, a \in ShellArgs}

\* commands of the heads with an analyzer of their own, each with a word
\* that a custom rule on its head blocks
RuleParallel ==
    [name |-> <<"n","o","-","p","a","r","a","l","l","e","l","-","k">>, command |-> <<"p","a","r","a","l","l","e","l">>, subcommand |-> NoneT,
     block_args |-> <<<<"-","k">>>>, reason |-> <<"N","o"," ","p","a","r","a","l","l","e","l"," ","-","k",".">>]
RuleBusybox ==
    [name |-> <<"n","o","-","b","u","s","y","b","o","x","-","v">>, command |-> <<"b","u","s","y","b","o","x">>, subcommand |-> NoneT,
     block_args |-> <<<<"-","v">>>>, reason |-> <<"N","o"," ","b","u","s","y","b","o","x"," ","-","v",".">>]
RuleFind ==
    [name |-> <<"n","o","-","f","i","n","d","-","n","a","m","e">>, command |-> <<"f","i","n","d">>, subcommand |-> NoneT,
     block_args |-> <<<<"-","n","a","m","e">>>>, reason |-> <<"N","o"," ","f","i","n","d"," ","-","n","a","m","e",".">>]
DispatchFiles ==
    [user |-> <<RuleXargs, RuleParallel, RuleBusybox>>, project |-> <<RuleGitAdd, RuleRm, RuleFind>>]
DispatchRule(head) ==
    CHOOSE rule \in {RuleXargs, RuleParallel, RuleBusybox, RuleGitAdd, RuleRm, RuleFind} :
        rule.command = head
DispatchChildPool ==
    {<<<<"e","c","h","o">>, <<"o","k">>>>, <<<<"g","i","t">>, <<"s","t","a","t","u","s">>>>, <<<<"r","m">>, <<"x">>>>, <<<<"r","m">>, <<"-","r","f">>, <<"/","t","m","p","/","x">>>>,
     <<<<"f","i","n","d">>, <<".">>, <<"-","t","y","p","e">>, <<"f">>>>, <<<<"b","u","s","y","b","o","x">>, <<"r","m">>, <<"x">>>>, <<<<"b","u","s","y","b","o","x">>, <<"f","i","n","d">>, <<".">>>>,
     <<<<"b","u","s","y","b","o","x">>, <<"l","s">>>>, <<<<"s","h">>, <<"-","c">>, <<"e","c","h","o"," ","o","k">>>>, <<<<"s","h">>, <<"-","c">>, <<"e","c","h","o"," ","{","}">>>>, <<>>}
DispatchWords ==
    {<<<<"x","a","r","g","s">>, <<"-","0">>>> \o child : child \in DispatchChildPool}
      \cup {<<<<"p","a","r","a","l","l","e","l">>, <<"-","k">>>> \o child \o marker :
                child \in DispatchChildPool, marker \in {<<>>, <<<<":",":",":">>, <<"a">>>>}}
      \cup {<<<<"b","u","s","y","b","o","x">>, <<"r","m">>, <<"-","v">>, <<"x">>>>, <<<<"b","u","s","y","b","o","x">>, <<"r","m">>, <<"-","v">>, <<"-","r","f">>, <<"/","t","m","p","/","x">>>>,
            <<<<"b","u","s","y","b","o","x">>, <<"f","i","n","d">>, <<".">>, <<"-","v">>>>, <<<<"b","u","s","y","b","o","x">>, <<"l","s">>, <<"-","v">>>>,
            <<<<"b","u","s","y","b","o","x">>, <<"-","v">>>>,
            <<<<"g","i","t">>, <<"a","d","d">>, <<"-","A">>>>, <<<<"g","i","t">>, <<"a","d","d">>, <<"-","-","a","l","l">>, <<"x">>>>,
            <<<<"r","m">>, <<"-","r">>, <<"x">>>>, <<<<"r","m">>, <<"-","r">>, <<"-","f">>, <<"/","t","m","p","/","x">>>>,
            <<<<"f","i","n","d">>, <<".">>, <<"-","n","a","m","e">>, <<"x">>>>, <<<<"f","i","n","d">>, <<"-","n","a","m","e">>, <<"x">>, <<"-","p","r","i","n","t">>>>}
RECURSIVE QuotedJoin(_)
\* the words of a command line, those with a blank or braces in quotes
QuotedJoin(words) ==
    IF words = <<>> THEN <<>>
    ELSE (IF \E i \in 1..Len(Head(words)) : Head(words)[i] \in {" ", "{"}
          THEN Quoted(Head(words)) ELSE Head(words))
         \o (IF Len(words) > 1 THEN <<" ">> ELSE <<>>) \o QuotedJoin(Tail(words))
DispatchInputs ==
    {Input(Setup(FALSE, FALSE, CWD_PROJECT, DispatchFiles),
           Shaped("dispatch", words, QuotedJoin(words))) : words \in DispatchWords}

\* commands behind a run of one wrapper around the bound of the stripping
\* loop: one iteration strips one unit
BoundUnits == {<<"s","u","d","o"," ">>, <<"e","n","v"," ">>, <<"c","o","m","m","a","n","d"," ">>, <<"A","=","1"," ","s","u","d","o"," ">>}
BoundCounts == {MaxStripIterations - 1, MaxStripIterations, MaxStripIterations + 1}
BoundTails ==
    {<<"s","h"," ","-","c"," ","'","g","i","t"," ","p","u","s","h"," ","o"," ","-","f","'">>, <<"g","i","t"," ","p","u","s","h"," ","o"," ","-","f">>, <<"s","h"," ","-","c"," ","'","e","c","h","o"," ","o","k","'">>, <<"e","c","h","o"," ","o","k">>,
     <<"g","i","t"," ","a","d","d"," ","-","A">>}
BoundArgs == [unit : BoundUnits, n : BoundCounts, tail : BoundTails]
BoundInputs ==
    {Input(setup, Shaped("bound", a, Repeated(a.unit, a.n) \o a.tail)) :
        setup \in {SetupPlain, SetupDefault, SetupStrict}, a \in BoundArgs}

\* commands for the splitter: every text of up to MaxSplitLen characters
\* over quotes, the backslash, the separators and the redirection sign, and
\* longer ones with blanks, newlines and input redirections
SplitAlphabet == {"a", "'", "\"", "\\", ";", "&", ">", "|"}
SplitTexts ==
    {<<"e","c","h","o"," ","o","k"," ","2",">","&","1"," ","&","&"," ","e","c","h","o"," ","'","a",";","b","'"," ","\\",";"," ","c"," ","&",">","o","u","t">>, <<"a"," ","<","&","3"," ","&"," ","b">>, <<"a","<","&","b">>, <<" ","a"," ",";"," ","b"," ">>,
     <<"a","\n"," ","b","\n">>, <<"a"," ",">","&","&"," ","b">>, <<"a"," ","|","&",">"," ","b">>, <<"a"," ","&","&",">"," ","b">>, <<"a"," ","\"","b"," ","&","&"," ","c","\""," ","|","|"," ","d">>,
     <<"a"," ","'","b"," ","|"," ","c","'"," ","|","&"," ","d">>, <<"a"," ","\\","\\",";"," ","b">>, <<"a"," ","\\","&"," ","b"," ","&"," ","c">>, <<"a"," ","'","\\","'"," ",";"," ","b">>, <<"a"," ","\"","\\","\""," ",";"," ","b","\""," ",";"," ","c">>,
     <<"a"," ","&"," ",">"," ","b">>, <<">"," ","&"," ","a">>, <<"a","\t",";","\t","b">>, <<" "," ">>, <<";",";">>, <<"a"," ",">"," ","&">>}
SplitInputs ==
    {Input(SetupPlain, Shaped("split", <<>>, c)) :
        c \in SeqsOf(SplitAlphabet, 1, MaxSplitLen) \cup SplitTexts}

\* requests that are no analyzable Bash command
OtherRequests ==
    LET ok == BashRequest(<<"r","m"," ","-","r","f"," ","/">>, CWD_PROJECT) IN
    {[ok EXCEPT !.json_ok = FALSE, !.is_dict = FALSE, !.tool_input_is_dict = FALSE,
                !.command_is_str = FALSE],
     [ok EXCEPT !.is_dict = FALSE, !.tool_input_is_dict = FALSE, !.command_is_str = FALSE],
     [ok EXCEPT !.tool_name = <<"R","e","a","d">>],
     [ok EXCEPT !.tool_name = <<"R","e","a","d">>, !.tool_input_is_dict = FALSE, !.command_is_str = FALSE],
     [ok EXCEPT !.tool_name = <<>>],
     [ok EXCEPT !.tool_name = <<"b","a","s","h">>],
     [ok EXCEPT !.tool_input_is_dict = FALSE, !.command_is_str = FALSE],
     [ok EXCEPT !.command_is_str = FALSE],
     [ok EXCEPT !.command = <<>>],
     [ok EXCEPT !.command = <<" "," ">>],
     [ok EXCEPT !.cwd = <<" "," ">>],
     [ok EXCEPT !.cwd = <<" ","/","w","/","p"," ">>],
     ok}
OtherInputs ==
    {[request |-> r, environ |-> Modes(strict, FALSE), files |-> ProjectFiles,
      shape |-> Plain(<<r.command>>, <<>>)] :
        r \in OtherRequests, strict \in BOOLEAN}

Inputs == WrappedInputs \cup ComposedInputs \cup CdInputs \cup NestedInputs
            \cup SingleInputs \cup OtherInputs \cup RmInputs
            \cup TmpdirInputs \cup SecretInputs
            \cup PushInputs \cup CheckoutInputs \cup FindInputs
            \cup XargsInputs \cup XargsReplaceInputs
            \cup ParallelRmInputs \cup StrictRmInputs \cup ConfigInputs
            \cup SessionInputs \cup ShellInputs \cup DispatchInputs
            \cup BoundInputs \cup SplitInputs

Init ==
    /\ \E input \in Inputs :
          /\ request = input.request
          /\ environ = input.environ
          /\ files = input.files
          /\ shape = input.shape
    /\ pc = "main"
    /\ stack = <<>>
    /\ decision = NoDecision
    /\ audit = NoAudit
    /\ log = <<>>

Next ==
    \/ Main
    \/ AnalyzeSegment
    \/ RecursionLimit
    \/ Recursion
    \/ Return
    \/ MainAllow

Spec == Init /\ [][Next]_vars

\* the hook is one synchronous process: it keeps running until main
\* returns.  Some step is possible in every state but the last (CanStep,
\* part of C28), so weak fairness of Next is written with pc # "done" for
\* ENABLED <<Next>>_vars; the return of main is the one step stated as such
FairSpec ==
    Spec /\ WF_vars(MainAllow) /\ ([]<>(pc = "done") \/ []<><<Next>>_vars)

(***************************************************************************)
(* Properties.  The definitions of this section read the model; none of    *)
(* them is part of it.                                                     *)
(***************************************************************************)
Last(s) == s[Len(s)]
\* the length of the longest token of a token list, at least 2
Max3(tokens) ==
    IF tokens = <<>> THEN 2
    ELSE CHOOSE n \in {Len(tokens[k]) : k \in 1..Len(tokens)} \cup {2} :
            \A k \in 1..Len(tokens) : Len(tokens[k]) <= n
\* the context of the call of _analyze_segment that log entry e records
LogCtx(e) == [depth |-> e.depth, cwd |-> e.cwd, strict |-> environ.strict,
              paranoid_rm |-> environ.paranoid_rm,
              paranoid_interpreters |-> environ.paranoid_interpreters,
              config |-> e.config, files |-> files]
\* the same call without any custom rule: the built-in analysis only
BuiltinCtx(ctx) == [ctx EXCEPT !.config = <<>>, !.files = NoFiles]
\* what main prints for a result of _analyze_command
AsDecision(result) ==
    IF result.deny THEN DenyDecision(result.seg, result.reason) ELSE AllowDecision
\* the calls of _analyze_segment that main's _analyze_command made itself
TopLevelLog == SelectSeq(log, LAMBDA e : e.depth = 0)
\* the request reaches _analyze_command
Analyzable ==
    /\ request.json_ok /\ request.is_dict /\ request.tool_name = <<"B","a","s","h">>
    /\ request.tool_input_is_dict /\ request.command_is_str
    /\ strip(request.command) # <<>>
\* the messages of the custom rules of the config files
CustomMessages ==
    {RuleMessage(files.user[k]) : k \in 1..Len(files.user)}
        \cup {RuleMessage(files.project[k]) : k \in 1..Len(files.project)}

\* C1: every analysis runs at a depth of at most 5, and a segment at depth
\* 5 that needs a further recursion ends the run with a deny that carries
\* the recursion-limit reason
C1_DepthBound ==
    /\ \A k \in 1..Len(stack) : stack[k].depth <= 5
    /\ \A k \in 1..Len(log) :
          /\ log[k].depth <= 5
          /\ (log[k].depth = 5 /\ SegPlan(log[k].seg, LogCtx(log[k])).calls # <<>>)
                => /\ k = Len(log) /\ pc = "done"
                   /\ decision = DenyDecision(log[k].seg,
                                              <<"C","o","m","m","a","n","d"," ","a","n","a","l","y","s","i","s"," ","r","e","c","u","r","s","i","o","n"," ","l","i","m","i","t"," ","r","e","a","c","h","e","d",".">>)

\* a command behind six wrappers was denied at depth 5 with the
\* recursion-limit reason
C1_Witness ==
    /\ pc = "done" /\ shape.nest = 6 /\ log # <<>> /\ Last(log).depth = 5
    /\ decision = DenyDecision(Last(log).seg, REASON_RECURSION_LIMIT)

\* C2: the segments of the command are analyzed in source order; the
\* decision is the deny of the first segment whose analysis denies, no
\* segment after it is analyzed, and the command is allowed only when the
\* analysis of every segment allows
C2_FirstDeny ==
    (Analyzable /\ pc # "main") =>
        LET segs == split_shell_commands(request.command)
            top == TopLevelLog
            n == Len(top)
            analyzed(k) == analyze_segment(segs[k], LogCtx(top[k]))
        IN /\ n <= Len(segs)
           /\ \A k \in 1..n : top[k].seg = segs[k]
           /\ pc = "done" =>
                 IF decision.kind = "deny"
                 THEN /\ n >= 1
                      /\ decision = AsDecision(analyzed(n))
                      /\ \A k \in 1..(n - 1) : ~analyzed(k).deny
                 ELSE /\ n = Len(segs)
                      /\ \A k \in 1..n : ~analyzed(k).deny

\* the first of several segments denied and no other segment was analyzed
C2_Witness ==
    /\ pc = "done" /\ Analyzable /\ decision.kind = "deny"
    /\ Len(split_shell_commands(request.command)) >= 2
    /\ Len(log) = 1

\* a composition of two or more segments without quotes, joined by one of
\* the separators of the splitter
QuoteFree(t) == \A i \in 1..Len(t) : t[i] \notin {"'", "\""}
IsComposition ==
    /\ shape.nest = 0 /\ shape.wrap = <<>> /\ Len(shape.parts) >= 2
    /\ shape.sep \in Separators
    /\ \A k \in 1..Len(shape.parts) : QuoteFree(shape.parts[k])
\* the analysis of the k-th segment of the composition on its own
Alone(k) == analyze_command(shape.parts[k], MainCtx)

\* C3 as stated: whenever a segment denies on its own, the composition
\* denies with the reason and the segment payload of that segment
C3_AnySegment ==
    (pc = "done" /\ IsComposition) =>
        \A k \in 1..Len(shape.parts) : Alone(k).deny => decision = AsDecision(Alone(k))

\* C3: when a segment denies on its own, and no segment before it denies on
\* its own or changes the directory while the cwd is known, the composition
\* denies with the reason and the segment payload of that segment
C3_FirstDenyingSegment ==
    (pc = "done" /\ IsComposition) =>
        \A k \in 1..Len(shape.parts) :
            (/\ Alone(k).deny
             /\ \A j \in 1..(k - 1) :
                    /\ ~Alone(j).deny
                    /\ MainCwd = <<>> \/ ~segment_changes_cwd(shape.parts[j]))
                => decision = AsDecision(Alone(k))

\* the second segment of a composition is the first that denies, and the
\* composition denied with its result
C3_Witness ==
    /\ pc = "done" /\ IsComposition
    /\ ~Alone(1).deny /\ Alone(2).deny
    /\ decision = AsDecision(Alone(2))

\* one command behind a prefix of wrappers
IsWrapped == shape.nest = 0 /\ shape.wrap # <<>> /\ Len(shape.parts) = 1
WrapsOf(units) == \A k \in 1..Len(shape.wrap) : shape.wrap[k] \in units

\* C4: a command behind a prefix of sudo [opts] --, env [opts], command
\* [opts] and KEY=VAL assignments gets the allow or deny, and the reason, of
\* the command alone
C4_WrapperTransparency ==
    (pc = "done" /\ IsWrapped
        /\ WrapsOf({<<"s","u","d","o"," ","-","u"," ","r","o","o","t"," ","-","-"," ">>, <<"e","n","v"," ","-","i"," ">>, <<"c","o","m","m","a","n","d"," ","-","p"," ">>, <<"A","=","1"," ">>})) =>
        LET alone == analyze_command(shape.parts[1], MainCtx) IN
        /\ decision.kind = (IF alone.deny THEN "deny" ELSE "allow")
        /\ decision.reason = alone.reason

\* the directory changes of C5, in the forms _segment_changes_cwd knows
RealCdForms == CdForms \ {<<"c","d"," ","'","x">>, <<"c","d","x"," ",".",".">>, <<"e","c","h","o"," ","c","d">>}
RmRelative == <<"r","m"," ","-","r","f"," ","b","u","i","l","d">>

\* C5: after a segment of the command that changes the directory, and
\* after any segment analyzed with the cwd unknown, every later analysis
\* runs with the cwd unknown; rm -rf of a relative path after a directory
\* change denies, although it is allowed on its own when the cwd is a
\* known directory other than the home directory (custom rules aside)
C5_CwdDowngrade ==
    /\ \A i \in 1..Len(log) : \A j \in (i + 1)..Len(log) :
          (log[i].depth = 0 /\ (log[i].cwd = <<>> \/ log[i].seg \in RealCdForms))
              => log[j].cwd = <<>>
    /\ (/\ pc = "done" /\ shape.nest = 0 /\ shape.wrap = <<>> /\ Len(shape.parts) >= 2
        /\ shape.parts[1] \in RealCdForms /\ Last(shape.parts) = RmRelative
        /\ \A k \in 2..(Len(shape.parts) - 1) : shape.parts[k] = <<"e","c","h","o"," ","o","k">>)
          => /\ decision = DenyDecision(RmRelative, REASON_RM_RF)
             /\ MainCwd \notin {<<>>, HOME}
                    => ~analyze_command(RmRelative, BuiltinCtx(MainCtx)).deny

\* rm -rf build was denied after a directory change, in a cwd where it is
\* allowed on its own
C5_Witness ==
    /\ pc = "done" /\ shape.nest = 0 /\ Len(shape.parts) >= 2
    /\ shape.parts[1] \in RealCdForms /\ Last(shape.parts) = RmRelative
    /\ MainCwd = CWD_PROJECT /\ ~analyze_command(RmRelative, BuiltinCtx(MainCtx)).deny
    /\ Len(log) >= 2 /\ Last(log).cwd = <<>>
    /\ decision = DenyDecision(RmRelative, REASON_RM_RF)

\* C6: a deny with the message of a custom rule comes from a segment at
\* depth 0 whose built-in analysis allows and whose tokens the rule
\* matches; when the built-in analysis of the segment main's
\* _analyze_command stopped at denies, the decision is that deny; and a
\* command a rule denies when run directly is not denied by the rule behind
\* an interpreter wrapper
C6_CustomAfterBuiltin ==
    (pc = "done" /\ decision.kind = "deny" /\ log # <<>>) =>
        LET e == Last(TopLevelLog)
            builtin == analyze_segment(e.seg, BuiltinCtx(LogCtx(e)))
            direct == analyze_command(shape.parts[1], MainCtx)
        IN /\ builtin.deny => decision = AsDecision(builtin)
           /\ decision.reason \in CustomMessages =>
                 /\ ~builtin.deny
                 /\ decision.seg = e.seg
                 /\ check_custom_rules(strip_wrappers(shlex_split(e.seg).toks), e.config)
                        = SomeT(decision.reason)
           /\ (shape.nest >= 1 /\ direct.reason \in CustomMessages)
                 => decision.reason # direct.reason

\* git add -A, which a rule of the project denies when run directly, was
\* allowed behind one interpreter wrapper
C6_Witness ==
    /\ pc = "done" /\ shape.nest = 1 /\ shape.parts = <<<<"g","i","t"," ","a","d","d"," ","-","A">>>>
    /\ analyze_command(<<"g","i","t"," ","a","d","d"," ","-","A">>, MainCtx).reason = RuleMessage(RuleGitAdd)
    /\ Len(log) = 2 /\ Last(log).depth = 1
    /\ decision = AllowDecision

\* the wrappers the stripper removes whole
ProperWrapUnits == {<<"s","u","d","o"," ">>, <<"e","n","v"," ","-","i"," ">>, <<"c","o","m","m","a","n","d"," ","-","p"," ">>, <<"A","=","1"," ">>}
\* one command behind such wrappers, which the built-in analysis allows
WrappedBuiltinAllows ==
    /\ pc = "done" /\ IsWrapped /\ WrapsOf(ProperWrapUnits)
    /\ ~analyze_command(request.command, BuiltinCtx(MainCtx)).deny
\* the decision when the matcher is given tokens
CustomDecision(tokens) ==
    AsDecision(FromReason(strip(request.command),
                          check_custom_rules(tokens, MainCtx.config)))

\* C7 as stated: the custom rules are matched against the tokens of the
\* segment before wrapper stripping
C7_OriginalTokens ==
    WrappedBuiltinAllows => decision = CustomDecision(shlex_split(request.command).toks)

\* C7: the custom rules are matched against the tokens that are left after
\* wrapper stripping, so the command behind sudo, env, command or KEY=VAL
\* is tokens[0] when the rules are matched
C7_StrippedTokens ==
    WrappedBuiltinAllows => decision = CustomDecision(shlex_split(shape.parts[1]).toks)

\* git add -A behind wrappers was denied by the rule on the command git
C7_Witness ==
    /\ WrappedBuiltinAllows
    /\ shape.parts = <<<<"g","i","t"," ","a","d","d"," ","-","A">>>>
    /\ decision = DenyDecision(request.command, RuleMessage(RuleGitAdd))

\* the reading of C8: options, the subcommand, the short-option letters
\* and the rules that qualify, written without the loops of the code
C8_IsOption(tok) == startswith(tok, <<"-","-">>) \/ (startswith(tok, <<"-">>) /\ Len(tok) >= 2)
\* the positions after the command that hold -- or a token that is no option
C8_Stops(tokens) == {i \in 2..Len(tokens) : tokens[i] = <<"-","-">> \/ ~C8_IsOption(tokens[i])}
C8_FirstStop(tokens) == CHOOSE i \in C8_Stops(tokens) : \A j \in C8_Stops(tokens) : i <= j
C8_Subcommand(tokens) ==
    IF C8_Stops(tokens) = {} THEN NoneT
    ELSE IF tokens[C8_FirstStop(tokens)] # <<"-","-">> THEN SomeT(tokens[C8_FirstStop(tokens)])
    ELSE IF C8_FirstStop(tokens) < Len(tokens) THEN SomeT(tokens[C8_FirstStop(tokens) + 1])
    ELSE NoneT
\* the letters of the single-dash tokens before --, each token up to its
\* first character that is no letter
C8_ShortLetters(tokens) ==
    {tokens[k][p] : <<k, p>> \in
        {kp \in (1..Len(tokens)) \X (2..Max3(tokens)) :
            /\ \A j \in 1..kp[1] : tokens[j] # <<"-","-">>
            /\ startswith(tokens[kp[1]], <<"-">>) /\ ~startswith(tokens[kp[1]], <<"-","-">>)
            /\ kp[2] <= Len(tokens[kp[1]])
            /\ \A q \in 2..kp[2] : ch_isalpha(tokens[kp[1]][q])}}
C8_Qualifies(rule, tokens) ==
    /\ rule.command = basename(tokens[1])
    /\ ~rule.subcommand.some \/ C8_Subcommand(tokens) = rule.subcommand
    /\ \E b \in {rule.block_args[k] : k \in 1..Len(rule.block_args)} :
          \/ \E i \in 1..Len(tokens) : tokens[i] = b
          \/ /\ Len(b) = 2 /\ b[1] = "-" /\ b[2] # "-"
             /\ b[2] \in C8_ShortLetters(tokens)
C8_Expected(tokens, rules) ==
    LET qualifying == {k \in 1..Len(rules) : C8_Qualifies(rules[k], tokens)} IN
    IF tokens = <<>> \/ rules = <<>> \/ qualifying = {} THEN NoneT
    ELSE LET first == rules[CHOOSE k \in qualifying : \A j \in qualifying : k <= j] IN
         SomeT(<<"[">> \o first.name \o <<"]"," ">> \o first.reason)
\* the token lists and the rule lists of the segment analyzed last: its
\* tokens as lexed and after wrapper stripping, the rules in force and the
\* rules of both config files
C8_Tokens ==
    {shlex_split(Last(log).seg).toks, strip_wrappers(shlex_split(Last(log).seg).toks)}
C8_Rules == {Last(log).config, files.user \o files.project, <<>>}

\* C8: check_custom_rules gives the message of the first rule in list
\* order whose command is the basename of tokens[0], whose subcommand is
\* absent or the first non-option token, and one of whose block_args is a
\* token or a short flag among the short-option letters; it gives no match
\* when no rule qualifies or when tokens or rules are empty
C8_CustomRules ==
    log # <<>> =>
        \A tokens \in C8_Tokens : \A rules \in C8_Rules :
            check_custom_rules(tokens, rules) = C8_Expected(tokens, rules)

\* two rules of the config files qualify for the tokens of a segment, and
\* the message is the one of the first of them
C8_Witness ==
    /\ log # <<>> /\ files = BothFiles
    /\ LET tokens == shlex_split(Last(log).seg).toks
           rules == files.user \o files.project
       IN /\ tokens # <<>>
          /\ C8_Qualifies(RuleGitAddUser, tokens) /\ C8_Qualifies(RuleGitAdd, tokens)
          /\ check_custom_rules(tokens, rules) = SomeT(RuleMessage(RuleGitAddUser))

\* the segments the lexer reports unparseable among the analyzed ones
Unparseable(k) == ~shlex_split(log[k].seg).ok

\* C9: an unparseable segment in strict mode ends the run with a deny that
\* carries the parse-safety reason and the strict-mode suffix; in
\* non-strict mode it ends the run with the deny of the text-level
\* fallback when that matches, and otherwise it is allowed and the
\* analysis goes on with the next segment
C9_Unparseable ==
    \A k \in 1..Len(log) : Unparseable(k) =>
        IF environ.strict
        THEN /\ k = Len(log) /\ pc = "done"
             /\ decision = DenyDecision(log[k].seg,
                    <<"U","n","a","b","l","e"," ","t","o"," ","p","a","r","s","e"," ","s","h","e","l","l"," ","c","o","m","m","a","n","d"," ","s","a","f","e","l","y",".">> \o
                    <<" ","[","s","t","r","i","c","t"," ","m","o","d","e"," ","-"," ","d","i","s","a","b","l","e"," ","w","i","t","h",":"," ","u","n","s","e","t"," ","S","A","F","E","T","Y","_","N","E","T","_","S","T","R","I","C","T","]">>)
        ELSE IF TextReason(log[k].seg).some
        THEN /\ k = Len(log) /\ pc = "done"
             /\ decision = DenyDecision(log[k].seg, TextReason(log[k].seg).v)
        ELSE (k = Len(log) /\ log[k].depth = 0) =>
                \/ pc = "analyze" /\ stack[1].idx = Len(TopLevelLog) + 1
                \/ pc = "done" /\ decision = AllowDecision

\* in non-strict mode an unparseable segment without a dangerous text was
\* allowed, and the segment after it was analyzed
C9_Witness ==
    /\ ~environ.strict /\ Len(log) >= 2
    /\ Unparseable(1) /\ ~TextReason(log[1].seg).some
    /\ log[1].depth = 0 /\ log[2].depth = 0

\* C10: a request with invalid JSON or an invalid shape is allowed in
\* non-strict mode and denied in strict mode; a well-formed request for
\* another tool than Bash, or with an empty command, is allowed in both
\* modes without any analysis
C10_InvalidRequests ==
    pc = "done" =>
        LET well_formed == /\ request.json_ok /\ request.is_dict
                           /\ request.tool_input_is_dict /\ request.command_is_str
            invalid == \/ ~request.json_ok
                       \/ ~request.is_dict
                       \/ /\ request.tool_name = <<"B","a","s","h">>
                          /\ ~request.tool_input_is_dict \/ ~request.command_is_str
        IN /\ invalid => decision.kind = (IF environ.strict THEN "deny" ELSE "allow")
           /\ (well_formed /\ (request.tool_name # <<"B","a","s","h">> \/ strip(request.command) = <<>>))
                 => decision = AllowDecision /\ log = <<>>

\* the analysis of rm with the options of the command and one target alone
RmAlone(target) ==
    analyze_command(<<"r","m"," ">> \o shape.args.opts \o <<" ","-","-"," ">> \o target, MainCtx)
\* the targets the allow-list never permits: root and the home directories
RootOrHome == {<<"/">>, <<"~">>, <<"~","b","o","b","/","x">>}

\* C11: a recursive-force rm is allowed only if each of its targets is
\* allowed as the only target; a target /, ~ or ~user denies the whole
\* command, whatever the other targets are and also after --
C11_EveryTarget ==
    (pc = "done" /\ shape.kind = "rm" /\ shape.args.opts = <<"-","r","f">>) =>
        LET targets == shape.args.targets IN
        /\ decision.kind = "allow" => \A k \in 1..Len(targets) : ~RmAlone(targets[k]).deny
        /\ (\E k \in 1..Len(targets) : targets[k] \in RootOrHome)
              => decision = DenyDecision(request.command, REASON_RM_RF_ROOT_HOME)
        /\ (environ.paranoid_rm \/ \E k \in 1..Len(targets) : RmAlone(targets[k]).deny)
              => decision.kind = "deny"

\* rm -rf with a permitted first target and / after -- was denied
C11_Witness ==
    /\ pc = "done" /\ shape.kind = "rm" /\ shape.args.opts = <<"-","r","f">>
    /\ ~environ.paranoid_rm
    /\ shape.args.targets = <<<<"/","t","m","p","/","x">>, <<"/">>>> /\ shape.args.dd = 2
    /\ ~RmAlone(<<"/","t","m","p","/","x">>).deny
    /\ decision = DenyDecision(request.command, REASON_RM_RF_ROOT_HOME)

\* the result of _analyze_command for the request had paranoid_rm been p
WithParanoidRm(p) == analyze_command(request.command, [MainCtx EXCEPT !.paranoid_rm = p])

\* C12: a command that is allowed with paranoid_rm is allowed without it
\* (read in both directions: what the hook allows in paranoid_rm mode the
\* analysis without it allows, and what the hook denies without paranoid_rm
\* the analysis with it denies); in paranoid_rm mode every recursive-force
\* rm is denied, whatever its targets
C12_Monotone ==
    (pc = "done" /\ Analyzable) =>
        /\ (environ.paranoid_rm /\ decision.kind = "allow") => ~WithParanoidRm(FALSE).deny
        /\ (~environ.paranoid_rm /\ decision.kind = "deny") => WithParanoidRm(TRUE).deny
        /\ (environ.paranoid_rm /\ shape.kind = "rm" /\ shape.args.opts = <<"-","r","f">>)
              => decision.kind = "deny"

\* in paranoid_rm mode rm -rf /tmp/x, which is allowed without the mode, was
\* denied with the paranoid reason
C12_Witness ==
    /\ pc = "done" /\ environ.paranoid_rm
    /\ shape.kind = "rm" /\ shape.args.opts = <<"-","r","f">> /\ shape.args.targets = <<<<"/","t","m","p","/","x">>>>
    /\ ~WithParanoidRm(FALSE).deny
    /\ decision = DenyDecision(request.command, REASON_RM_RF \o PARANOID_RM_SUFFIX)

\* C13: an rm -rf of a child of $TMPDIR is not allowed when the command-line
\* segment assigns TMPDIR, also when the rm is reached behind wrappers,
\* through xargs or parallel, or through a shell -c inside the segment (the
\* target is on no other ground of the allow-list, so the command is denied)
C13_TmpdirGround ==
    (pc = "done" /\ shape.kind = "tmpdir" /\ TmpdirAssigned(request.command))
        => decision.kind = "deny"

\* the parts of text that the patterns of _redact_secrets take for secrets
SecretsIn(text) ==
    UNION {SecretMatchAt(SecretPatterns[k], text, p).secrets :
              k \in 1..Len(SecretPatterns), p \in 1..Len(text)}
\* what the hook prints as permissionDecisionReason for its deny
Output == PermissionDecisionReason(request.command, decision.seg, decision.reason)

\* C14: no part of what the hook prints for a deny (the Reason line, the
\* Command excerpt, the Segment excerpt) contains a part of the command that
\* matches one of the secret patterns
C14_NoSecretInOutput ==
    (pc = "done" /\ Analyzable /\ decision.kind = "deny") =>
        \A s \in SecretsIn(request.command) : ~contains(Output, s)

\* the arguments of the git push at hand: --force among them, a short
\* option cluster with f before --, --force-with-lease[=...] among them
PushForceLong == \E k \in 1..Len(shape.args) : shape.args[k] = <<"-","-","f","o","r","c","e">>
PushForceShort ==
    \E k \in 1..Len(shape.args) :
        /\ shape.args[k] \in {<<"-","f">>, <<"-","u","f">>}
        /\ \A j \in 1..(k - 1) : shape.args[j] # <<"-","-">>
PushLease ==
    \E k \in 1..Len(shape.args) : startswith(shape.args[k], <<"-","-","f","o","r","c","e","-","w","i","t","h","-","l","e","a","s","e">>)

\* C15 as stated: git push with --force or -f denies unless
\* --force-with-lease is present, --force with --force-with-lease denies,
\* and a push without force is allowed
C15_AsStated ==
    (pc = "done" /\ shape.kind = "push") =>
        (decision.kind = "deny" <=>
            \/ (PushForceLong \/ PushForceShort) /\ ~PushLease
            \/ PushForceLong /\ PushLease)

\* C15, amended: git push denies exactly when --force or a short option
\* cluster with f is among its arguments, with or without
\* --force-with-lease; with --force-with-lease alone it is allowed
C15_AnyForce ==
    (pc = "done" /\ shape.kind = "push") =>
        decision = IF PushForceLong \/ PushForceShort
                   THEN DenyDecision(request.command, REASON_GIT_PUSH_FORCE)
                   ELSE AllowDecision

\* git push -f --force-with-lease origin was denied
C15_Witness ==
    /\ pc = "done" /\ shape.kind = "push"
    /\ shape.args = <<<<"-","f">>, <<"-","-","f","o","r","c","e","-","w","i","t","h","-","l","e","a","s","e">>, <<"o","r","i","g","i","n">>>>
    /\ PushLease /\ PushForceShort /\ ~PushForceLong
    /\ decision = DenyDecision(request.command, REASON_GIT_PUSH_FORCE)

\* the items of the git checkout at hand: -- among them, -b, -B or --orphan
\* among the options (before --), --pathspec-from-file among them, the number of positionals
CheckoutHas(pool) == \E k \in 1..Len(shape.args) : shape.args[k] \in pool
CheckoutDoubleDash == CheckoutHas({<<<<"-","-">>>>})
CheckoutNewBranch ==
    \E k \in 1..Len(shape.args) :
        /\ shape.args[k] \in CheckoutNewBranchPool
        /\ \A j \in 1..(k - 1) : shape.args[j] # <<<<"-","-">>>>
CheckoutFromFile == CheckoutHas({<<<<"-","-","p","a","t","h","s","p","e","c","-","f","r","o","m","-","f","i","l","e","=","x">>>>})
CheckoutPositionals ==
    Cardinality({k \in 1..Len(shape.args) : shape.args[k] \in CheckoutPositionalPool})

\* C16 as stated: git checkout denies when its arguments contain --, or
\* --pathspec-from-file, or two positional arguments; it is allowed when
\* -b, -B or --orphan is present
C16_AsStated ==
    (pc = "done" /\ shape.kind = "checkout") =>
        /\ CheckoutNewBranch => decision.kind = "allow"
        /\ (~CheckoutNewBranch /\ (CheckoutDoubleDash \/ CheckoutFromFile
                                    \/ CheckoutPositionals >= 2))
              => decision.kind = "deny"

\* C16, amended: git checkout denies when its arguments contain --; without
\* -- it is allowed when -b, -B or --orphan is present; otherwise it denies
\* exactly when --pathspec-from-file is present or there are two positional
\* arguments, the values of options not counted
C16_Checkout ==
    (pc = "done" /\ shape.kind = "checkout") =>
        (decision.kind = "deny" <=>
            \/ CheckoutDoubleDash
            \/ ~CheckoutNewBranch /\ (CheckoutFromFile \/ CheckoutPositionals >= 2))

\* git checkout --track direct main file, two positional arguments behind
\* an option with its value, was denied
C16_Witness ==
    /\ pc = "done" /\ shape.kind = "checkout"
    /\ shape.args = <<<<<<"-","-","t","r","a","c","k">>, <<"d","i","r","e","c","t">>>>, <<<<"m","a","i","n">>>>, <<<<"f","i","l","e">>>>>>
    /\ CheckoutPositionals = 2 /\ ~CheckoutNewBranch /\ ~CheckoutDoubleDash
    /\ decision = DenyDecision(request.command, REASON_GIT_CHECKOUT_REF_PATHSPEC)

\* the arguments of the find at hand
FindArgs == <<<<".">>>> \o Flatten(shape.args)
\* the position of the first ; or + behind position i (Len + 1 when none)
FindBodyEnd(args, i) ==
    LET ends == {j \in (i + 1)..Len(args) : args[j] \in {<<";">>, <<"+">>}} IN
    IF ends = {} THEN Len(args) + 1 ELSE CHOOSE j \in ends : \A k \in ends : j <= k
\* the positions that are neither the argument of a one-argument predicate
\* nor inside the body or at the terminator of an -exec like action
FindPrimaries(args) ==
    LET behind(j) == IF args[j] \in FindExecLike THEN FindBodyEnd(args, j) + 1
                     ELSE IF args[j] \in FindConsumesOne THEN j + 2 ELSE j + 1
        primary[i \in 1..Len(args)] ==
            i = 1 \/ \E j \in 1..(i - 1) : primary[j] /\ behind(j) = i
    IN {i \in 1..Len(args) : primary[i]}
\* a short option with the letter c
ShortWith(tok, c) == startswith(tok, <<"-">>) /\ ~startswith(tok, <<"-","-">>) /\ member(tok, c)
\* the body of an action is, behind its wrappers and behind busybox, rm with
\* a recursive and a force option before --
FindBodyIsRmRf(body) ==
    LET b == strip_wrappers(body)
        c == IF b # <<>> /\ b[1] = <<"b","u","s","y","b","o","x">> THEN Tail(b) ELSE b
        dd == {k \in 1..Len(c) : c[k] = <<"-","-">>}
        opts == {k \in 2..Len(c) : \A d \in dd : k < d}
    IN /\ c # <<>> /\ c[1] = <<"r","m">>
       /\ \E k \in opts : ShortWith(c[k], "r")
       /\ \E k \in opts : ShortWith(c[k], "f")

\* C17: the find analyzer denies exactly when -delete stands at a position
\* that is neither the argument of a one-argument predicate nor inside the
\* body of an -exec, -execdir, -ok or -okdir action, or the body of such an
\* action (up to its ; or +, or to the end) is rm, also behind wrappers and
\* busybox, with a recursive and a force option before --
C17_FindDenies ==
    (pc = "done" /\ shape.kind = "find") =>
        LET args == FindArgs
            dangerous(i) ==
                \/ args[i] = <<"-","d","e","l","e","t","e">>
                \/ /\ args[i] \in FindExecLike
                   /\ FindBodyIsRmRf(SubSeq(args, i + 1, FindBodyEnd(args, i) - 1))
        IN /\ decision.kind = "deny" <=> \E i \in FindPrimaries(args) : dangerous(i)
           /\ decision.kind = "deny" =>
                 /\ decision.seg = request.command
                 /\ decision.reason \in {REASON_FIND_DELETE_ACTION, REASON_FIND_EXEC_RM}

\* find . -name -delete -delete was denied for its second -delete, the
\* first being the argument of -name
C17_Witness ==
    /\ pc = "done" /\ shape.kind = "find"
    /\ shape.args = <<<<<<"-","n","a","m","e">>>>, <<<<"-","d","e","l","e","t","e">>>>, <<<<"-","d","e","l","e","t","e">>>>>>
    /\ FindPrimaries(FindArgs) = {1, 2, 4}
    /\ decision = DenyDecision(request.command, REASON_FIND_DELETE_ACTION)

\* C18: xargs with options in front of rm -rf, also busybox rm -rf, denies
\* for every list of xargs options, whatever the target and the cwd: the
\* options that take a value skip it, -i and every other option skip only
\* themselves, and the child command is the first token behind the options
C18_XargsRm ==
    (pc = "done" /\ shape.kind = "xargs") =>
        decision = DenyDecision(request.command, REASON_XARGS_RM_RF)

\* C19: an xargs whose options declare a replacement token, wherever the
\* declaring option stands among the others, denies a child sh -c CMD when
\* CMD is the token (arbitrary commands from input) and when CMD is an
\* rm -rf of a path with the token, whatever the cwd
C19_ReplacementToken ==
    (pc = "done" /\ shape.kind = "xargs_replace") =>
        /\ decision.kind = "deny"
        /\ shape.args.code = <<>>
              => decision = DenyDecision(request.command, ArbitraryReason(<<"x","a","r","g","s">>, <<"s","h">>))

\* the rm command line parallel runs for one argument: the argument in the
\* place of {} if the template has one, behind the template otherwise
Materialized(arg) ==
    LET tp == shape.args.template IN
    IF \E k \in 1..Len(tp) : tp[k].hole THEN Filled(tp, arg)
    ELSE Append(Filled(tp, <<>>), arg)
\* the rm command line denies when it is the command of the request
RmLineDenies(words) == analyze_command(<<"r","m">> \o Words(words, 1, 0), MainCtx).deny
ParallelRecursiveForce ==
    \E k \in 1..Len(shape.args.template) : shape.args.template[k].pre = <<"-","r","f">>

\* C20 as stated: with ::: the rm analysis runs once for every argument
\* behind it and the segment denies exactly when one of them denies;
\* without ::: a recursive-force rm template denies
C20_AsStated ==
    (pc = "done" /\ shape.kind = "parallel_rm") =>
        /\ shape.args.explicit =>
              (decision.kind = "deny" <=>
                  \E a \in 1..Len(shape.args.args) :
                      RmLineDenies(Materialized(shape.args.args[a])))
        /\ (~shape.args.explicit /\ ParallelRecursiveForce)
              => decision = DenyDecision(request.command, REASON_PARALLEL_RM_RF)

\* C20, amended: with ::: and at least one argument behind it the segment
\* denies exactly when the rm command line of one of the arguments denies;
\* with ::: and no argument it denies exactly when the template itself
\* denies; without ::: a recursive-force rm template denies
C20_ParallelRm ==
    (pc = "done" /\ shape.kind = "parallel_rm") =>
        /\ (shape.args.explicit /\ shape.args.args # <<>>) =>
              (decision.kind = "deny" <=>
                  \E a \in 1..Len(shape.args.args) :
                      RmLineDenies(Materialized(shape.args.args[a])))
        /\ (shape.args.explicit /\ shape.args.args = <<>>) =>
              (decision.kind = "deny" <=> RmLineDenies(Filled(shape.args.template, <<"{","}">>)))
        /\ (~shape.args.explicit /\ ParallelRecursiveForce)
              => decision = DenyDecision(request.command, REASON_PARALLEL_RM_RF)
        /\ decision.kind = "deny" => decision.seg = request.command

\* parallel rm -rf {} ::: build / was denied for its second argument: the
\* command line rm -rf build is allowed, rm -rf / is not
C20_Witness ==
    /\ pc = "done" /\ shape.kind = "parallel_rm" /\ shape.args.explicit
    /\ ~shape.args.busybox
    /\ shape.args.template = <<Word(<<"-","r","f">>, FALSE), Word(<<>>, TRUE)>>
    /\ shape.args.args = <<<<"b","u","i","l","d">>, <<"/">>>>
    /\ Materialized(<<"/">>) = <<<<"-","r","f">>, <<"/">>>>
    /\ ~RmLineDenies(Materialized(<<"b","u","i","l","d">>))
    /\ RmLineDenies(Materialized(<<"/">>))
    /\ decision = DenyDecision(request.command, REASON_RM_RF_ROOT_HOME)

\* C21: with strict mode enabled, rm -rf of a relative path inside the cwd
\* is denied, and the reason carries the hint unset SAFETY_NET_STRICT
C21_StrictRm ==
    (pc = "done" /\ shape.kind = "rm" /\ shape.args \in StrictRmArgs
        /\ environ.strict /\ MainCwd = CWD_PROJECT) =>
        /\ decision.kind = "deny"
        /\ contains(decision.reason, <<"u","n","s","e","t"," ","S","A","F","E","T","Y","_","N","E","T","_","S","T","R","I","C","T">>)

\* the rules a scope contributes: those of its file unless the file is one
\* of the invalid ones
ScopeRules(rules_data) == IF rules_data \in InvalidScopePool THEN <<>> ELSE rules_data
\* the rules of the two scopes that a call of _analyze_segment is made with
UserRules == ScopeRules(files.user)
ProjectRules(e) == IF e.cwd # <<>> THEN ScopeRules(files.project) ELSE <<>>
SameName(r1, r2) == lower(r1.name) = lower(r2.name)
Overridden(rule, project) == \E j \in 1..Len(project) : SameName(rule, project[j])

\* C22: the rules every segment is analyzed with are the merge of the two
\* scopes: no two of them share a name case-insensitively, the user rules
\* without a project rule of the same case-folded name come first in their
\* order, all project rules follow in their order, and an invalid scope
\* contributes no rule and leaves the other scope as it is
C22_MergedRules ==
    \A k \in 1..Len(log) :
        LET rules == log[k].config
            project == ProjectRules(log[k])
            kept == SelectSeq(UserRules, LAMBDA rule : ~Overridden(rule, project))
        IN /\ \A i \in 1..Len(rules) : \A j \in 1..Len(rules) :
                  i # j => ~SameName(rules[i], rules[j])
           /\ rules = kept \o project

\* a segment was analyzed with the merge of two valid scopes, in which one
\* user rule is overridden by a project rule of another spelling and
\* another user rule is kept
C22_Witness ==
    /\ pc = "done" /\ log # <<>> /\ log[1].cwd # <<>>
    /\ files.user = <<RuleGitAddUser, RuleQuietUser, RuleSudo>>
    /\ files.project = <<RuleEcho, RuleGitAdd>>
    /\ log[1].config = <<RuleSudo, RuleEcho, RuleGitAdd>>

\* a segment was analyzed with the rules of the valid user scope only,
\* the project scope being invalid
C22_WitnessInvalid ==
    /\ pc = "done" /\ log # <<>> /\ log[1].cwd # <<>>
    /\ files.user = <<RuleGitAddUser, RuleSudo>> /\ files.project \in InvalidScopePool
    /\ log[1].config = files.user

\* the file name of the audit file without its .jsonl
AuditStem == LET name == Last(PathSplit(audit.file)) IN SubSeq(name, 1, Len(name) - 6)
\* a file-name component as C23 wants it
SafeComponent(safe) ==
    /\ Len(safe) >= 1 /\ Len(safe) <= 128
    /\ \A i \in 1..Len(safe) :
          safe[i] \in UpperSet \cup LowerSet \cup Digits \cup {"_", ".", "-"}
    /\ safe # <<".">> /\ safe # <<".",".">>
    /\ \A i \in 1..Len(safe) : safe[i] \notin {"/", "\\"}

\* C23: the sanitized session id is either rejected, and then no audit
\* file is written, or a string of 1 to 128 characters of [A-Za-z0-9_.-]
\* that is neither . nor .. and holds no path separator; the audit file is
\* that name with .jsonl, a direct child of the logs directory
C23_AuditFile ==
    /\ request.session_id.some =>
          LET safe == sanitize_session_id_for_filename(request.session_id.v) IN
          /\ safe.some => SafeComponent(safe.v)
          /\ ~safe.some => ~audit.written
    /\ audit.written =>
          /\ pc = "done" /\ decision.kind = "deny" /\ request.session_id.some
          /\ PathSplit(audit.file) = PathSplit(LOGS_DIR) \o <<AuditStem \o <<".","j","s","o","n","l">>>>
          /\ SafeComponent(AuditStem)

\* a deny was logged for a session id that tries to leave the logs
\* directory
C23_Witness ==
    /\ pc = "done" /\ audit.written
    /\ request.session_id = SomeT(<<".",".","/",".",".","/","e","t","c","/","p","a","s","s","w","d">>)
    /\ audit.file = LOGS_DIR \o <<"/","e","t","c","_","p","a","s","s","w","d",".","j","s","o","n","l">>

\* the analysis of the code of the shell, one level down
ShellCode == analyze_command(shape.args.code, [MainCtx EXCEPT !.depth = 1])
\* the words of the shell command as they were put together
ShellWords == shape.args.head \o <<shape.args.code>> \o shape.args.extra
\* a custom rule matches the words of the shell command
ShellCustom == check_custom_rules(ShellWords, MainCtx.config)

\* C24 as stated: the segment denies with the result of the analysis of
\* its code, and if that analysis allows and no custom rule matches, the
\* segment is allowed
C24_AsStated ==
    (pc = "done" /\ shape.kind = "shell") =>
        IF ShellCode.deny THEN decision = AsDecision(ShellCode)
        ELSE ~ShellCustom.some => decision.kind = "allow"

\* the words after the code hold an embedded rm, git or find that its
\* analyzer denies
ShellExtraDenies ==
    \/ shape.args.extra = <<<<"r","m">>, <<"-","r","f">>, <<"/">>>>
    \/ shape.args.extra = <<<<"g","i","t">>, <<"r","e","s","e","t">>, <<"-","-","h","a","r","d">>>>

\* C24: the segment denies with the result of the analysis of its code;
\* if that analysis allows, the segment is analyzed like any other command:
\* it denies if a word after the head starts an rm, git or find command
\* that its analyzer denies or the text of the segment is dangerous, then
\* if a custom rule matches its tokens, and is allowed otherwise
C24_ShellCode ==
    (pc = "done" /\ shape.kind = "shell") =>
        IF ShellCode.deny THEN decision = AsDecision(ShellCode)
        ELSE IF ShellExtraDenies \/ dangerous_in_text(request.command).some
        THEN /\ decision.kind = "deny" /\ decision.seg = request.command
             /\ decision.reason \notin CustomMessages
        ELSE IF ShellCustom.some
        THEN decision = DenyDecision(request.command, ShellCustom.v)
        ELSE decision.kind = "allow"

\* the code of a shell allows, and the segment was denied for the git
\* reset --hard in the words after the code
C24_Witness ==
    /\ pc = "done" /\ shape.kind = "shell" /\ ~ShellCode.deny
    /\ shape.args.code = <<"e","c","h","o"," ","o","k">> /\ shape.args.extra = <<<<"g","i","t">>, <<"r","e","s","e","t">>, <<"-","-","h","a","r","d">>>>
    /\ Len(log) = 2 /\ log[2].depth = 1 /\ log[2].seg = <<"e","c","h","o"," ","o","k">>
    /\ decision = DenyDecision(request.command, REASON_GIT_RESET_HARD)

\* C25: when the built-in analysis of a depth-0 segment whose head is
\* xargs, parallel, busybox, git, rm or find gives no reason, the custom
\* rules are matched against the tokens of the segment, whatever the child
\* command or the template is: a segment with a word that the rule on its
\* head blocks is denied with the message of that rule
C25_CustomAfterAnalyzer ==
    (pc = "done" /\ shape.kind = "dispatch"
        /\ ~analyze_command(request.command, BuiltinCtx(MainCtx)).deny) =>
        decision = DenyDecision(request.command, RuleMessage(DispatchRule(shape.args[1])))

\* the head of the segment still needs wrapper stripping after the
\* iterations the loop allows
BoundReached ==
    /\ pc = "done" /\ shape.kind = "bound"
    /\ shape.args.n > MaxStripIterations

\* C26: a segment whose head still needs wrapper stripping after 20
\* iterations of the loop is denied, not analyzed on the partly stripped
\* tokens
C26_BoundDenies ==
    BoundReached => decision.kind = "deny"

\* the token lists of the segments of this run that the lexer could split:
\* the lists _strip_wrappers is applied to
StripInputs ==
    {shlex_split(log[k].seg).toks : k \in {j \in 1..Len(log) : shlex_split(log[j].seg).ok}}
IsSuffixOf(r, tokens) ==
    Len(r) <= Len(tokens) /\ From(tokens, Len(tokens) - Len(r)) = r
WrapperHeads == {<<"s","u","d","o">>, <<"e","n","v">>, <<"c","o","m","m","a","n","d">>}
\* the result is a suffix of the input, stripping it again changes nothing
\* and its head is no assignment and no wrapper
FixedPoint(tokens) ==
    LET r == strip_wrappers(tokens) IN
    /\ IsSuffixOf(r, tokens)
    /\ strip_wrappers(r) = r
    /\ r # <<>> => (~IsEnvAssignment(r[1]) /\ r[1] \notin WrapperHeads)

\* C27: for every token list the result of _strip_wrappers is a suffix of
\* the input, is left unchanged by a second application and never begins
\* with a KEY=VALUE assignment or with sudo, env or command
C27_FixedPoint ==
    pc = "done" => \A tokens \in StripInputs : FixedPoint(tokens)

\* the frames of the call stack: every nested _analyze_command runs one
\* level deeper than its caller, from 0 up to the recursion bound
DepthsIncrease ==
    \A k \in 1..Len(stack) :
        stack[k].depth = k - 1 /\ stack[k].depth <= MAX_RECURSION_DEPTH
\* the loop of _analyze_command stays within the segments of its command
SegmentLoopInRange ==
    \A k \in 1..Len(stack) : stack[k].idx \in 1..(Len(stack[k].segs) + 1)
\* an iteration of the wrapper stripper that finds an assignment or a
\* wrapper at the head removes at least one token
StripperAdvances ==
    \A tokens \in StripInputs :
        (tokens # <<>> /\ (IsEnvAssignment(tokens[1]) \/ lower(tokens[1]) \in WrapperHeads))
            => Len(strip_wrappers(tokens)) < Len(tokens)
\* some step of the hook is possible: main has not started, a segment is at
\* hand, or a loop over the segments has run out and returns
CanStep ==
    \/ pc = "main"
    \/ AtSegment
    \/ pc = "analyze" /\ stack # <<>> /\ ~Top.waiting /\ Top.idx > Len(Top.segs)
\* the run has ended with allow or with deny(segment, reason)
Returned ==
    /\ pc = "done"
    /\ decision.kind \in {"allow", "deny"}
    /\ decision.kind = "deny" => decision.reason # <<>>

\* C28: every run of the analysis ends, with allow or with a deny that
\* carries a reason; until then every nested call runs exactly one level
\* deeper than its caller and never deeper than 5, the loop over the
\* segments stays within the segments and the wrapper stripper removes
\* at least one token whenever it finds a wrapper
C28_Terminates ==
    /\ <>Returned
    /\ [](IF pc = "done" THEN Returned ELSE CanStep)
    /\ [](DepthsIncrease /\ SegmentLoopInRange /\ StripperAdvances)

\* a run with nested calls down to depth 3 and at least five analyzed
\* segments has ended
C28_Witness ==
    /\ Returned /\ Len(log) >= 5
    /\ \E k \in 1..Len(log) : log[k].depth >= 3

\* the state of the splitter after k iterations of its loop over command
SplitAfter(command, k) == SplitLoop(command, SplitInit, k)
\* the iterations the loop makes on command, counted from 0
SplitIterations(command) ==
    {k \in 0..(Len(command) - 1) : SplitAfter(command, k).i < Len(command)}
\* iteration k ends a segment: the buffer is flushed (an iteration that
\* keeps its character leaves it in the buffer)
Flushes(command, k) == SplitAfter(command, k + 1).buf = <<>>
\* the character iteration k looks at is a & next to a redirection sign:
\* right after > or <, or right before >
AtRedirection(command, k) ==
    LET i == SplitAfter(command, k).i IN
    /\ command[i + 1] = "&"
    /\ \/ i > 0 /\ command[i] \in {">", "<"}
       \/ i + 1 < Len(command) /\ command[i + 2] = ">"
\* the quote states are never both set, and a segment ends only outside
\* quotes and with no escape pending
QuoteStates(command) ==
    /\ \A k \in 0..Len(command) :
          ~(SplitAfter(command, k).in_single /\ SplitAfter(command, k).in_double)
    /\ \A k \in SplitIterations(command) :
          Flushes(command, k) =>
              /\ ~SplitAfter(command, k).in_single
              /\ ~SplitAfter(command, k).in_double
              /\ ~SplitAfter(command, k).escape
\* the segments occur in command one after the other, from position from on
RECURSIVE InSourceOrder(_, _, _)
InSourceOrder(parts, command, from) ==
    IF parts = <<>> THEN TRUE
    ELSE LET at == {p \in from..(Len(command) - Len(parts[1])) :
                        startswith_at(command, parts[1], p)}
         IN at # {} /\ InSourceOrder(Tail(parts), command,
                                      Len(parts[1]) + CHOOSE p \in at : \A q \in at : p <= q)
\* every segment is non-empty and trimmed, and they are in source order
SegmentsTrimmed(command) ==
    LET parts == split_shell_commands(command) IN
    /\ \A k \in 1..Len(parts) :
          /\ parts[k] # <<>>
          /\ parts[k][1] \notin Whitespace
          /\ parts[k][Len(parts[k])] \notin Whitespace
    /\ InSourceOrder(parts, command, 0)
SplitCase == pc = "done" /\ shape.kind = "split"

\* C29 as stated: the quote states are never both set, a segment ends only
\* outside quotes and with no escape pending, no & next to a redirection
\* sign ends a segment, and the segments are non-empty, trimmed and in
\* source order
C29_AsStated ==
    SplitCase =>
        /\ QuoteStates(request.command)
        /\ \A k \in SplitIterations(request.command) :
              AtRedirection(request.command, k) => ~Flushes(request.command, k)
        /\ SegmentsTrimmed(request.command)

\* C29: as stated, but a & next to a redirection sign that begins the
\* separator && does end a segment
C29_Splitter ==
    SplitCase =>
        /\ QuoteStates(request.command)
        /\ \A k \in SplitIterations(request.command) :
              (/\ AtRedirection(request.command, k)
               /\ ~startswith_at(request.command, <<"&","&">>, SplitAfter(request.command, k).i))
                  => ~Flushes(request.command, k)
        /\ SegmentsTrimmed(request.command)

\* a command with redirections, a quoted and an escaped separator was split
\* at its one && and both segments were analyzed
C29_Witness ==
    /\ SplitCase
    /\ request.command = <<"e","c","h","o"," ","o","k"," ","2",">","&","1"," ","&","&"," ","e","c","h","o"," ","'","a",";","b","'"," ","\\",";"," ","c"," ","&",">","o","u","t">>
    /\ split_shell_commands(request.command) = <<<<"e","c","h","o"," ","o","k"," ","2",">","&","1">>, <<"e","c","h","o"," ","'","a",";","b","'"," ","\\",";"," ","c"," ","&",">","o","u","t">>>>
    /\ Len(log) = 2

\* the result of _analyze_command on the command of the request as main
\* calls it, with strict mode set to flag and everything else as it is
StrictRun(flag) == analyze_command(request.command, [MainCtx EXCEPT !.strict = flag])
\* the request is invalid JSON or has not the shape of a hook request
InvalidRequest ==
    ~request.json_ok \/ ~request.is_dict
        \/ (request.tool_name = <<"B","a","s","h">> /\ ~request.tool_input_is_dict)
\* the tokens the dispatch of _analyze_segment sees for a segment
DispatchTokens(segment) == strip_wrappers(shlex_split(segment).toks)
\* the deny is one of the two that strict mode adds, on a segment of its kind
StrictDeny(result) ==
    /\ result.deny
    /\ \/ /\ result.reason = REASON_UNPARSEABLE
          /\ ~shlex_split(result.seg).ok
       \/ /\ result.reason = REASON_UNPARSEABLE_DASH_C
          /\ shlex_split(result.seg).ok
          /\ has_shell_dash_c(DispatchTokens(result.seg))
          /\ ~extract_dash_c_arg(DispatchTokens(result.seg)).some

====
